---- MODULE Spec2Model ----
(***************************************************************************)
(* kubectl-csi-scan: the multi-source CSI diagnosis engine.                *)
(*                                                                         *)
(* The coordinator (pkg/detect/detector.go), the volume-attachment, the    *)
(* cross-node PVC, the events and the metrics detectors, the message      *)
(* miner of the events detector, GetDetailedAnalysis, and WaitForJobs of   *)
(* the cleanup job manager (pkg/cleanup).                                  *)
(*                                                                         *)
(* Go strings are modelled as sequences of one-character strings (Text),   *)
(* so that Contains, Fields, Trim, HasPrefix and the lexicographic order   *)
(* are computed character by character, as the Go code computes them.      *)
(* Enumerations (issue type, severity, detection method) are TLA+ strings. *)
(* Time is counted in minutes.                                             *)
(***************************************************************************)
EXTENDS Integers, Sequences, FiniteSets, TLC

VARIABLES
    options,        \* types.DetectionOptions: methods, targetDriver, minSeverity, recommendCleanup
    attachments,    \* cluster snapshot: the VolumeAttachment list
    pods,           \* cluster snapshot: the pod list
    pvcs,           \* cluster snapshot: what the PVC / PV / StorageClass lookups answer, per PVC key
    events,         \* cluster snapshot: the event list
    ctxCancelled,   \* the context passed to DetectAll has fired
    detectors,      \* Detector: the detector fields NewDetector has set (non-nil)
    pc,             \* position of the running operation
    invoked,        \* the detectors whose Detect was called, in call order
    readLog,        \* the Cluster Reader calls made, with their outcome
    produced,       \* per method, the findings its detector returned
    allIssues,      \* DetectAll: allIssues
    methodsUsed,    \* DetectAll: methodsUsed
    result,         \* the *DetectionResult DetectAll returned (NoResult: nil)
    err,            \* the error the running operation returned (NoError: nil)
    analysis,       \* GetDetailedAnalysis: the DetailedAnalysis being filled and returned
    minedMessage,   \* message miner: the event message handed to the extractors
    extracted,      \* message miner: what the extractors returned for minedMessage
    reextracted,    \* message miner: what they returned for the extracted value in filler text
    jobNames,       \* WaitForJobs: the jobNames argument
    jobs,           \* the Job objects of the namespace: per name, existence and status counters
    tickReady,      \* WaitForJobs: ticker.C holds a tick
    checkIndex,     \* checkJobsStatus: the index of the next job name to look at
    allComplete,    \* checkJobsStatus: allComplete
    seen,           \* checkJobsStatus: the jobs fetched so far by the running status check
    cleanupPc,      \* CreateCleanupJob: position of the call
    cleanupCalls,   \* the number of calls of CreateCleanupJob made so far
    objects,        \* CreateCleanupJob: the manifest objects not applied yet
    currentJob,     \* CreateCleanupJob: jobName
    cleanupReturn,  \* CreateCleanupJob: what the call returned
    applyLog,       \* the API calls the running call of CreateCleanupJob has made
    clusterJobs,    \* the names of the Jobs of the namespace CreateCleanupJob works in
    serviceAccounts \* the names of the ServiceAccounts of that namespace

\* the variables of DetectAll and of the context, position and error every operation uses
detectVars == <<options, attachments, pods, pvcs, events, detectors, invoked, readLog,
                produced, allIssues, methodsUsed, result>>

minerVars == <<minedMessage, extracted, reextracted>>

waitVars == <<jobNames, jobs, tickReady, checkIndex, allComplete, seen>>

cleanupVars ==
    <<cleanupPc, cleanupCalls, objects, currentJob, cleanupReturn, applyLog, clusterJobs,
      serviceAccounts>>

vars == <<detectVars, ctxCancelled, pc, err, analysis, minerVars, waitVars, cleanupVars>>

\* the variables of the operations other than DetectAll
otherCalls == <<analysis, minerVars, waitVars, cleanupVars>>

-----------------------------------------------------------------------------
(* Bounds of the model *)

MaxAttachments == 2
MaxPods == 2
MaxEvents == 1
MaxMethods == 2
MaxJobs == 2

-----------------------------------------------------------------------------
(* Text: Go strings, byte by byte *)

Ascii == <<" ","!","\"","#","$","%","&","'","(",")","*","+",",","-",".","/","0","1","2","3","4","5","6","7","8","9",":",";","<","=",">","?","@","A","B","C","D","E","F","G","H","I","J","K","L","M","N","O","P","Q","R","S","T","U","V","W","X","Y","Z","[","]","^","_","a","b","c","d","e","f","g","h","i","j","k","l","m","n","o","p","q","r","s","t","u","v","w","x","y","z","{","|","}","~">>

Range(s) == {s[i] : i \in DOMAIN s}

OrdOf == [c \in Range(Ascii) |-> CHOOSE i \in DOMAIN Ascii : Ascii[i] = c]

Empty == <<>>

WhiteSpace == {" "}

LowerLetters == <<"a","b","c","d","e","f","g","h","i","j","k","l","m","n","o","p","q","r","s","t","u","v","w","x","y","z">>

UpperLetters == <<"A","B","C","D","E","F","G","H","I","J","K","L","M","N","O","P","Q","R","S","T","U","V","W","X","Y","Z">>

Digits == <<"0","1","2","3","4","5","6","7","8","9">>

ToLowerChar(c) ==
    IF c \in Range(UpperLetters)
    THEN LowerLetters[CHOOSE i \in DOMAIN UpperLetters : UpperLetters[i] = c]
    ELSE c

ToLower(s) == [i \in DOMAIN s |-> ToLowerChar(s[i])]

\* strings.EqualFold, on ASCII text
EqualFold(a, b) == ToLower(a) = ToLower(b)

\* strings.Contains
Contains(s, p) == \E i \in 0..(Len(s) - Len(p)) : SubSeq(s, i + 1, i + Len(p)) = p

\* strings.Index: the 0-based position of the first occurrence, -1 when absent
Index(s, p) ==
    IF Contains(s, p)
    THEN CHOOSE i \in 0..(Len(s) - Len(p)) :
            /\ SubSeq(s, i + 1, i + Len(p)) = p
            /\ \A j \in 0..(i - 1) : SubSeq(s, j + 1, j + Len(p)) # p
    ELSE -1

\* strings.HasPrefix
HasPrefix(s, p) == Len(s) >= Len(p) /\ SubSeq(s, 1, Len(p)) = p

\* strings.ContainsAny
ContainsAny(s, chars) == \E i \in DOMAIN s : s[i] \in Range(chars)

RECURSIVE TrimLeft(_, _)
TrimLeft(s, cut) ==
    IF s # <<>> /\ Head(s) \in cut THEN TrimLeft(Tail(s), cut) ELSE s

RECURSIVE TrimRight(_, _)
TrimRight(s, cut) ==
    IF s # <<>> /\ s[Len(s)] \in cut THEN TrimRight(SubSeq(s, 1, Len(s) - 1), cut) ELSE s

\* strings.Trim(s, cutset)
Trim(s, cutset) == TrimRight(TrimLeft(s, Range(cutset)), Range(cutset))

\* s[from:] in Go, from 0-based
From(s, from) == SubSeq(s, from + 1, Len(s))

\* strings.Fields: the maximal runs of non-space characters
RECURSIVE Fields(_)
Fields(s) ==
    LET t == TrimLeft(s, WhiteSpace)
    IN  IF t = <<>> THEN <<>>
        ELSE LET n == IF \E i \in DOMAIN t : t[i] \in WhiteSpace
                      THEN CHOOSE i \in DOMAIN t :
                              /\ t[i] \in WhiteSpace
                              /\ \A j \in 1..(i - 1) : t[j] \notin WhiteSpace
                      ELSE Len(t) + 1
             IN  <<SubSeq(t, 1, n - 1)>> \o Fields(SubSeq(t, n, Len(t)))

\* a < b in Go's string order (bytewise lexicographic)
RECURSIVE TextLess(_, _)
TextLess(a, b) ==
    IF b = <<>> THEN FALSE
    ELSE IF a = <<>> THEN TRUE
    ELSE IF Head(a) = Head(b) THEN TextLess(Tail(a), Tail(b))
    ELSE OrdOf[Head(a)] < OrdOf[Head(b)]

\* sort.Strings applied to the elements of a set of Text (the order of a slice without duplicates)
RECURSIVE SortedSeq(_)
SortedSeq(S) ==
    IF S = {} THEN <<>>
    ELSE LET m == CHOOSE x \in S : \A y \in S \ {x} : TextLess(x, y)
         IN  <<m>> \o SortedSeq(S \ {m})

\* all orders in which a Go map with key set S may be ranged over
Perms(S) ==
    {p \in [1..Cardinality(S) -> S] : \A i, j \in 1..Cardinality(S) : p[i] = p[j] => i = j}

RECURSIVE Flatten(_)
Flatten(ss) == IF ss = <<>> THEN <<>> ELSE Head(ss) \o Flatten(Tail(ss))

-----------------------------------------------------------------------------
(* pkg/types *)

VolumeAttachmentMethod == "volumeattachments"
CrossNodePVCMethod == "cross-node-pvc"
EventsMethod == "events"
MetricsMethod == "metrics"

DetectionMethods == {VolumeAttachmentMethod, CrossNodePVCMethod, EventsMethod, MetricsMethod}

VolumeAttachmentConflict == "volume-attachment-conflict"
StuckVolumeAttachment == "stuck-volume-attachment"
StuckVolumeDetachment == "stuck-volume-detachment"
MultipleAttachments == "multiple-attachments"
MultiAttachError == "multi-attach-error"
FailedAttachVolume == "failed-attach-volume"
StuckMountReference == "stuck-mount-reference"
CSIOperationFailure == "csi-operation-failure"

IssueTypes == {VolumeAttachmentConflict, StuckVolumeAttachment, StuckVolumeDetachment,
               MultipleAttachments, MultiAttachError, FailedAttachVolume,
               StuckMountReference, CSIOperationFailure}

SeverityCritical == "critical"
SeverityHigh == "high"
SeverityMedium == "medium"
SeverityLow == "low"

Severities == {SeverityLow, SeverityMedium, SeverityHigh, SeverityCritical}

\* types.CSIMountIssue; ref names the object the finding was made from (metadata), nodes
\* is the node list printed in the description
CSIMountIssue(type, severity, node, volume, pvc, namespace, driver, detectedBy, ref, nodes) ==
    [type |-> type, severity |-> severity, node |-> node, volume |-> volume, pvc |-> pvc,
     namespace |-> namespace, driver |-> driver, detectedBy |-> detectedBy,
     ref |-> ref, nodes |-> nodes]

Unknown == <<"u","n","k","n","o","w","n">>

\* time.Now(), in minutes
Now == 1000

-----------------------------------------------------------------------------
(* Cluster Reader calls: a call made after the context has fired returns a  *)
(* cancellation error, a call the API server fails returns an API error.    *)
(* cancelAt is the number of calls of the running detector that complete    *)
(* before the context fires; log is the list of calls made so far.          *)

ReadOk == "ok"
ReadError == "error"
ReadCancelled == "cancelled"

Read(call, apiFails, log, cancelAt) ==
    [call |-> call,
     outcome |-> IF Len(log) >= cancelAt THEN ReadCancelled
                 ELSE IF apiFails THEN ReadError ELSE ReadOk]

-----------------------------------------------------------------------------
(* Volume-attachment detector *)

StuckThreshold == 30

\* a volume handle left empty when the source names neither a PV nor a CSI volume
getVolumeHandle_emptyWhenIndeterminate(source) ==
    IF source.hasPV THEN source.pvName
    ELSE IF source.hasInline /\ source.hasCSI THEN source.csiHandle
    ELSE Empty

\* getVolumeHandle
getVolumeHandle(source) ==
    IF source.hasPV THEN source.pvName
    ELSE IF source.hasInline /\ source.hasCSI THEN source.csiHandle
    ELSE Unknown

\* a driver filter that lets every record through
passesDriverFilter_open(va, targetDriver) == TRUE

\* the driver filter at the head of the loop of Detect: TRUE when the record is processed
passesDriverFilter(va, targetDriver) ==
    ~(targetDriver # Empty /\ va.attacher # targetDriver)

\* types.VolumeAttachmentInfo as Detect fills it
vaInfo(va) ==
    [name |-> va.name, node |-> va.node, volumeHandle |-> getVolumeHandle(va.source),
     driver |-> va.attacher, attached |-> va.attached]

\* volumeAttachments[handle] right after the loop of Detect has handled record i
RECURSIVE groupUpTo(_, _, _, _)
groupUpTo(vas, targetDriver, handle, i) ==
    IF i = 0 THEN <<>>
    ELSE LET rest == groupUpTo(vas, targetDriver, handle, i - 1)
         IN  IF passesDriverFilter(vas[i], targetDriver)
                /\ getVolumeHandle(vas[i].source) = handle
             THEN Append(rest, vaInfo(vas[i]))
             ELSE rest

attachedCountOf(infos) == Cardinality({k \in DOMAIN infos : infos[k].attached})

\* calculateSeverity
calculateSeverity(allAttachments) ==
    LET attachedCount == attachedCountOf(allAttachments)
    IN  IF attachedCount >= 5 THEN SeverityCritical
        ELSE IF attachedCount >= 3 THEN SeverityHigh
        ELSE IF attachedCount = 2 THEN SeverityMedium
        ELSE SeverityLow

\* calculateMultiAttachSeverity
calculateMultiAttachSeverity(attachedCount) ==
    IF attachedCount >= 5 THEN SeverityCritical
    ELSE IF attachedCount >= 3 THEN SeverityHigh
    ELSE SeverityMedium

\* calculateStuckAttachmentSeverity
calculateStuckAttachmentSeverity(stuckDuration) ==
    IF stuckDuration > 4 * 60 THEN SeverityCritical
    ELSE IF stuckDuration > 2 * 60 THEN SeverityHigh
    ELSE IF stuckDuration > 1 * 60 THEN SeverityMedium
    ELSE SeverityLow

\* a stuck test that forgets the attach error
isStuck_ignoresAttachError(va, timeSinceCreation) ==
    ~va.attached /\ timeSinceCreation > StuckThreshold

\* the test "Check for stuck attachments" of the loop of Detect
isStuck(va, timeSinceCreation) ==
    ~va.attached /\ ~va.attachError /\ timeSinceCreation > StuckThreshold

\* the findings the body of the loop of Detect appends for record i
attachmentIssues(vas, targetDriver, i) ==
    LET va == vas[i]
        volumeHandle == getVolumeHandle(va.source)
        timeSinceCreation == Now - va.created
        errorIssue ==
            IF va.attachError \/ va.detachError
            THEN <<CSIMountIssue(
                     IF va.detachError THEN StuckVolumeDetachment ELSE FailedAttachVolume,
                     calculateSeverity(groupUpTo(vas, targetDriver, volumeHandle, i)),
                     va.node, volumeHandle, Empty, Empty, va.attacher,
                     VolumeAttachmentMethod, va.name, <<>>)>>
            ELSE <<>>
        stuckIssue ==
            IF isStuck(va, timeSinceCreation)
            THEN <<CSIMountIssue(
                     StuckVolumeAttachment,
                     calculateStuckAttachmentSeverity(timeSinceCreation),
                     va.node, volumeHandle, Empty, Empty, va.attacher,
                     VolumeAttachmentMethod, va.name, <<>>)>>
            ELSE <<>>
    IN  IF passesDriverFilter(va, targetDriver) THEN errorIssue \o stuckIssue ELSE <<>>

\* the key set of the map volumeAttachments after the loop
volumeHandleKeys(vas, targetDriver) ==
    {getVolumeHandle(vas[i].source) : i \in {k \in DOMAIN vas : passesDriverFilter(vas[k], targetDriver)}}

\* a second loop that reports every handle with two records, attached or not
multiAttachIssue_anyTwoRecords(vas, targetDriver, volumeHandle) ==
    LET group == groupUpTo(vas, targetDriver, volumeHandle, Len(vas))
        attachedInfos == SelectSeq(group, LAMBDA a : a.attached)
        attachedCount == Len(attachedInfos)
        attachedNodes == [k \in DOMAIN attachedInfos |-> attachedInfos[k].node]
    IN  IF Len(group) > 1
        THEN <<CSIMountIssue(MultipleAttachments, calculateMultiAttachSeverity(attachedCount),
                             Empty, volumeHandle, Empty, Empty, group[1].driver,
                             VolumeAttachmentMethod, volumeHandle, attachedNodes)>>
        ELSE <<>>

\* the finding the second loop of Detect appends for one volume handle
multiAttachIssue(vas, targetDriver, volumeHandle) ==
    LET group == groupUpTo(vas, targetDriver, volumeHandle, Len(vas))
        attachedInfos == SelectSeq(group, LAMBDA a : a.attached)
        attachedCount == Len(attachedInfos)
        attachedNodes == [k \in DOMAIN attachedInfos |-> attachedInfos[k].node]
    IN  IF Len(group) > 1 /\ attachedCount > 1
        THEN <<CSIMountIssue(MultipleAttachments, calculateMultiAttachSeverity(attachedCount),
                             Empty, volumeHandle, Empty, Empty, group[1].driver,
                             VolumeAttachmentMethod, volumeHandle, attachedNodes)>>
        ELSE <<>>

\* the findings of Detect after a successful list; order is the order in which the map
\* volumeAttachments is ranged over
volumeAttachmentFindings(vas, targetDriver, order) ==
    Flatten([i \in DOMAIN vas |-> attachmentIssues(vas, targetDriver, i)])
    \o Flatten([k \in DOMAIN order |-> multiAttachIssue(vas, targetDriver, order[k])])

\* VolumeAttachmentDetector.Detect: the findings (issues), the error (failed) and the calls made
VolumeAttachmentDetect(vas, listFails, targetDriver, cancelAt, order) ==
    LET listAttachments == Read("listAttachments", listFails, <<>>, cancelAt)
    IN  IF listAttachments.outcome # ReadOk
        THEN [issues |-> <<>>, failed |-> TRUE, log |-> <<listAttachments>>]
        ELSE [issues |-> volumeAttachmentFindings(vas, targetDriver, order),
              failed |-> FALSE,
              log |-> <<listAttachments>>]

-----------------------------------------------------------------------------
(* Cross-node PVC detector *)

HighUsageThreshold == 10

\* fmt.Sprintf("%d", n) for n >= 0
RECURSIVE Itoa(_)
Itoa(n) == IF n < 10 THEN <<Digits[n + 1]>> ELSE Itoa(n \div 10) \o <<Digits[(n % 10) + 1]>>

\* fmt.Sprintf("%s/%s", namespace, claimName)
pvcKeyOf(namespace, claimName) == namespace \o <<"/">> \o claimName

\* the (pod, PVC volume) pairs the first loop of Detect visits, in order
podRefs(podList) ==
    Flatten([i \in DOMAIN podList |->
        IF podList[i].node = Empty THEN <<>>
        ELSE LET vols == SelectSeq(podList[i].volumes, LAMBDA v : v.hasPVC)
             IN  [j \in DOMAIN vols |->
                    [namespace |-> podList[i].namespace, node |-> podList[i].node,
                     pvcKey |-> pvcKeyOf(podList[i].namespace, vols[j].claimName)]]])

\* getPVCDriver: the driver, whether an error is returned, and the log with the calls made
getPVCDriver(info, log, cancelAt) ==
    LET getPVC == Read("getPVC", info.pvcErr, log, cancelAt)
        log1 == Append(log, getPVC)
        getPV == Read("getPV", info.pvErr, log1, cancelAt)
        log2 == IF info.volumeName # Empty THEN Append(log1, getPV) ELSE log1
        getSC == Read("getStorageClass", info.scErr, log2, cancelAt)
        log3 == Append(log2, getSC)
    IN  IF getPVC.outcome # ReadOk THEN [driver |-> Empty, err |-> TRUE, log |-> log1]
        ELSE IF info.volumeName # Empty /\ getPV.outcome # ReadOk
             THEN [driver |-> Empty, err |-> TRUE, log |-> log2]
        ELSE IF info.volumeName # Empty /\ info.pvHasCSI
             THEN [driver |-> info.pvDriver, err |-> FALSE, log |-> log2]
        ELSE IF info.hasStorageClass
             THEN IF getSC.outcome # ReadOk
                  THEN [driver |-> Empty, err |-> TRUE, log |-> log3]
                  ELSE [driver |-> info.provisioner, err |-> FALSE, log |-> log3]
        ELSE [driver |-> Empty, err |-> TRUE, log |-> log2]

\* the first loop of Detect recording the empty driver of a lookup that failed
RECURSIVE driverLookups_recordsFailedLookups(_, _, _, _, _)
driverLookups_recordsFailedLookups(refs, i, pvcInfo, log0, cancelAt) ==
    IF i = 0 THEN [drivers |-> <<>>, log |-> log0]
    ELSE LET st == driverLookups_recordsFailedLookups(refs, i - 1, pvcInfo, log0, cancelAt)
             key == refs[i].pvcKey
             r == getPVCDriver(pvcInfo[key], st.log, cancelAt)
         IN  IF key \in DOMAIN st.drivers THEN st
             ELSE [drivers |-> (key :> r.driver) @@ st.drivers, log |-> r.log]

\* the first loop of Detect over refs[1..i]: the map pvcDrivers and the calls made
RECURSIVE driverLookups(_, _, _, _, _)
driverLookups(refs, i, pvcInfo, log0, cancelAt) ==
    IF i = 0 THEN [drivers |-> <<>>, log |-> log0]
    ELSE LET st == driverLookups(refs, i - 1, pvcInfo, log0, cancelAt)
             key == refs[i].pvcKey
             r == getPVCDriver(pvcInfo[key], st.log, cancelAt)
         IN  IF key \in DOMAIN st.drivers THEN st
             ELSE [drivers |-> IF ~r.err /\ r.driver # Empty
                               THEN (key :> r.driver) @@ st.drivers
                               ELSE st.drivers,
                   log |-> r.log]

\* pvcNodeUsage[pvcKey]: node -> number of references
nodeUsageOf(refs, key) ==
    LET nodes == {refs[i].node : i \in {k \in DOMAIN refs : refs[k].pvcKey = key}}
    IN  [n \in nodes |-> Cardinality({i \in DOMAIN refs : refs[i].pvcKey = key /\ refs[i].node = n})]

RECURSIVE SumOver(_, _)
SumOver(f, S) ==
    IF S = {} THEN 0 ELSE LET x == CHOOSE x \in S : TRUE IN f[x] + SumOver(f, S \ {x})

\* calculateCrossNodeSeverity
calculateCrossNodeSeverity(nodeCount, totalUsage) ==
    IF nodeCount >= 5 \/ totalUsage >= 20 THEN SeverityCritical
    ELSE IF nodeCount >= 3 \/ totalUsage >= 15 THEN SeverityHigh
    ELSE IF nodeCount = 2 \/ totalUsage >= 10 THEN SeverityMedium
    ELSE SeverityLow

\* calculateHighUsageSeverity
calculateHighUsageSeverity(usage) ==
    IF usage >= 20 THEN SeverityCritical
    ELSE IF usage >= 15 THEN SeverityHigh
    ELSE IF usage >= 10 THEN SeverityMedium
    ELSE SeverityLow

\* a second loop that reports a single node from the threshold on
crossNodeIssue_atThreshold(refs, drivers, targetDriver, key, nodeOrder) ==
    LET nodeUsage == nodeUsageOf(refs, key)
        nodeCount == Cardinality(DOMAIN nodeUsage)
        totalUsage == SumOver(nodeUsage, DOMAIN nodeUsage)
        namespace == refs[CHOOSE i \in DOMAIN refs : refs[i].pvcKey = key].namespace
        driver == IF key \in DOMAIN drivers THEN drivers[key] ELSE Empty
        nodeList == [k \in DOMAIN nodeOrder |->
                        nodeOrder[k] \o <<"(">> \o Itoa(nodeUsage[nodeOrder[k]]) \o <<")">>]
    IN  IF targetDriver # Empty /\ key \in DOMAIN drivers /\ ~Contains(drivers[key], targetDriver)
        THEN <<>>
        ELSE IF nodeCount > 1
        THEN <<CSIMountIssue(MultipleAttachments,
                             calculateCrossNodeSeverity(nodeCount, totalUsage),
                             Empty, Empty, key, namespace, driver,
                             CrossNodePVCMethod, key, nodeList)>>
        ELSE IF totalUsage >= HighUsageThreshold
        THEN <<CSIMountIssue(StuckMountReference,
                             calculateHighUsageSeverity(totalUsage),
                             nodeOrder[1], Empty, key, namespace, driver,
                             CrossNodePVCMethod, key, <<>>)>>
        ELSE <<>>

\* the finding the second loop of Detect appends for one PVC key; nodeOrder is the order
\* in which the map nodeUsage is ranged over
crossNodeIssue(refs, drivers, targetDriver, key, nodeOrder) ==
    LET nodeUsage == nodeUsageOf(refs, key)
        nodeCount == Cardinality(DOMAIN nodeUsage)
        totalUsage == SumOver(nodeUsage, DOMAIN nodeUsage)
        namespace == refs[CHOOSE i \in DOMAIN refs : refs[i].pvcKey = key].namespace
        driver == IF key \in DOMAIN drivers THEN drivers[key] ELSE Empty
        nodeList == [k \in DOMAIN nodeOrder |->
                        nodeOrder[k] \o <<"(">> \o Itoa(nodeUsage[nodeOrder[k]]) \o <<")">>]
    IN  IF targetDriver # Empty /\ key \in DOMAIN drivers /\ ~Contains(drivers[key], targetDriver)
        THEN <<>>
        ELSE IF nodeCount > 1
        THEN <<CSIMountIssue(MultipleAttachments,
                             calculateCrossNodeSeverity(nodeCount, totalUsage),
                             Empty, Empty, key, namespace, driver,
                             CrossNodePVCMethod, key, nodeList)>>
        ELSE IF totalUsage > HighUsageThreshold
        THEN <<CSIMountIssue(StuckMountReference,
                             calculateHighUsageSeverity(totalUsage),
                             nodeOrder[1], Empty, key, namespace, driver,
                             CrossNodePVCMethod, key, <<>>)>>
        ELSE <<>>

\* the key set of the map pvcNodeUsage
pvcKeys(podList) == {podRefs(podList)[i].pvcKey : i \in DOMAIN podRefs(podList)}

\* the orders in which the maps nodeUsage may be ranged over, one per PVC key
nodeOrders(podList) ==
    LET refs == podRefs(podList)
    IN  [pvcKeys(podList) -> UNION {Perms(DOMAIN nodeUsageOf(refs, k)) : k \in pvcKeys(podList)}]

validNodeOrders(podList) ==
    LET refs == podRefs(podList)
    IN  {f \in nodeOrders(podList) :
            \A key \in pvcKeys(podList) : f[key] \in Perms(DOMAIN nodeUsageOf(refs, key))}

\* the number of Cluster Reader calls Detect makes when none of them is cancelled
crossNodeReads(podList, pvcInfo) ==
    LET refs == podRefs(podList)
    IN  Len(driverLookups(refs, Len(refs), pvcInfo, <<"listPods">>, 1 + 3 * Len(refs)).log)

\* Detect returning the error of a driver lookup
CrossNodePVCDetect_lookupFatal(podList, pvcInfo, podsFail, targetDriver, cancelAt, keyOrder, nodeOrder) ==
    LET listPods == Read("listPods", podsFail, <<>>, cancelAt)
        refs == podRefs(podList)
        looked == driverLookups(refs, Len(refs), pvcInfo, <<listPods>>, cancelAt)
    IN  IF \E i \in DOMAIN looked.log : looked.log[i].outcome # ReadOk
        THEN [issues |-> <<>>, failed |-> TRUE, log |-> looked.log]
        ELSE [issues |-> Flatten([k \in DOMAIN keyOrder |->
                            crossNodeIssue(refs, looked.drivers, targetDriver,
                                           keyOrder[k], nodeOrder[keyOrder[k]])]),
              failed |-> FALSE,
              log |-> looked.log]

\* CrossNodePVCDetector.Detect: the findings (issues), the error (failed) and the calls
\* made; keyOrder and nodeOrder are the orders in which the maps are ranged over
CrossNodePVCDetect(podList, pvcInfo, podsFail, targetDriver, cancelAt, keyOrder, nodeOrder) ==
    LET listPods == Read("listPods", podsFail, <<>>, cancelAt)
        refs == podRefs(podList)
        looked == driverLookups(refs, Len(refs), pvcInfo, <<listPods>>, cancelAt)
    IN  IF listPods.outcome # ReadOk
        THEN [issues |-> <<>>, failed |-> TRUE, log |-> <<listPods>>]
        ELSE [issues |-> Flatten([k \in DOMAIN keyOrder |->
                            crossNodeIssue(refs, looked.drivers, targetDriver,
                                           keyOrder[k], nodeOrder[keyOrder[k]])]),
              failed |-> FALSE,
              log |-> looked.log]

-----------------------------------------------------------------------------
(* Events detector and its message miner *)

\* the lookback NewDetector configures: 1*time.Hour
LookbackDuration == 60

WarningType == "Warning"
NormalType == "Normal"

MultiAttachText == <<"M","u","l","t","i","-","A","t","t","a","c","h"," ","e","r","r","o","r">>
GetDeviceMountRefsText == <<"G","e","t","D","e","v","i","c","e","M","o","u","n","t","R","e","f","s">>
FailedAttachVolumeText == <<"F","a","i","l","e","d","A","t","t","a","c","h","V","o","l","u","m","e">>
FailedMountText == <<"F","a","i","l","e","d","M","o","u","n","t">>
CSIText == <<"C","S","I">>
DotCSIDot == <<".","c","s","i",".">>
PvcDash == <<"p","v","c","-">>
Quote == <<"\"">>

\* the six driver identifiers of eventMatchesDriver and extractDriverFromMessage
knownDrivers == <<<<"c","i","n","d","e","r",".","c","s","i",".","o","p","e","n","s","t","a","c","k",".","o","r","g">>,
                  <<"r","o","o","k","-","c","e","p","h",".","r","b","d",".","c","s","i",".","c","e","p","h",".","c","o","m">>,
                  <<"r","o","o","k","-","c","e","p","h",".","c","e","p","h","f","s",".","c","s","i",".","c","e","p","h",".","c","o","m">>,
                  <<"e","b","s",".","c","s","i",".","a","w","s",".","c","o","m">>,
                  <<"d","i","s","k",".","c","s","i",".","a","z","u","r","e",".","c","o","m">>,
                  <<"p","d",".","c","s","i",".","s","t","o","r","a","g","e",".","g","k","e",".","i","o">>>>

\* the value of the first candidate that was found, in list order
FirstFound(cands, default) ==
    IF \E k \in DOMAIN cands : cands[k].found
    THEN cands[CHOOSE k \in DOMAIN cands :
                  cands[k].found /\ \A j \in 1..(k - 1) : ~cands[j].found].value
    ELSE default

Found(v) == [found |-> TRUE, value |-> v]
NotFound == [found |-> FALSE, value |-> Empty]

\* the span of s from the 0-based position start up to the next double quote
quotedSpan(s, start) ==
    LET rest == From(s, start)
        end == Index(rest, Quote)
    IN  IF end # -1 THEN Found(SubSeq(rest, 1, end)) ELSE NotFound

\* strings.Split(s, sep)[1], for s containing sep
SplitSecond(s, sep) ==
    LET rest == From(s, Index(s, sep) + Len(sep))
    IN  IF Contains(rest, sep) THEN SubSeq(rest, 1, Index(rest, sep)) ELSE rest

\* eventMatchesDriver accepting only the events whose message names the target driver
eventMatchesDriver_targetOnly(event, targetDriver) == Contains(event.message, targetDriver)

\* eventMatchesDriver
eventMatchesDriver(event, targetDriver) ==
    LET known == IF targetDriver # Empty /\ targetDriver \notin Range(knownDrivers)
                 THEN Append(knownDrivers, targetDriver)
                 ELSE knownDrivers
        importantEvents == <<MultiAttachText, GetDeviceMountRefsText,
                             FailedAttachVolumeText, FailedMountText>>
    IN  IF Contains(event.message, targetDriver) THEN TRUE
        ELSE IF \E k \in DOMAIN known :
                    known[k] # targetDriver /\ Contains(event.message, known[k]) THEN FALSE
        ELSE IF Contains(event.message, DotCSIDot) THEN FALSE
        ELSE IF \E k \in DOMAIN importantEvents :
                    Contains(event.message, importantEvents[k]) \/ event.reason = importantEvents[k]
             THEN TRUE
        ELSE IF Contains(event.reason, CSIText) \/ Contains(event.message, CSIText) THEN TRUE
        ELSE FALSE

\* calculateEventSeverity looking at the repetition count before the message
calculateEventSeverity_countFirst(event) ==
    IF event.count >= 10 THEN SeverityCritical
    ELSE IF Contains(event.message, MultiAttachText) THEN SeverityHigh
    ELSE IF Contains(event.message, GetDeviceMountRefsText) THEN SeverityHigh
    ELSE IF event.count >= 7 THEN SeverityHigh
    ELSE IF event.count >= 3 THEN SeverityMedium
    ELSE SeverityLow

\* calculateEventSeverity
calculateEventSeverity(event) ==
    IF Contains(event.message, MultiAttachText) THEN SeverityHigh
    ELSE IF Contains(event.message, GetDeviceMountRefsText) THEN SeverityHigh
    ELSE IF event.count >= 10 THEN SeverityCritical
    ELSE IF event.count >= 7 THEN SeverityHigh
    ELSE IF event.count >= 3 THEN SeverityMedium
    ELSE SeverityLow

\* extractVolumeFromMessage
extractVolumeFromMessage(message) ==
    LET words == Fields(message)
        punct == <<"\"","'",",",".","(",")","[","]">>
        punctColon == <<"\"","'",",",".","(",")","[","]",":">>
        \* the token that starts with pvc-
        prefixed == [k \in DOMAIN words |->
                        IF Contains(message, PvcDash) /\ HasPrefix(words[k], PvcDash)
                        THEN Found(Trim(words[k], punct)) ELSE NotFound]
        \* the quoted span after one of the volume patterns
        volumePatterns == <<<<"v","o","l","u","m","e"," ","\"">>, <<"V","o","l","u","m","e"," ","\"">>, <<"v","o","l","u","m","e","H","a","n","d","l","e"," ","\"">>,
                            <<"v","o","l","u","m","e","I","d"," ","\"">>, <<"v","o","l","u","m","e","_","i","d"," ","\"">>>>
        quoted == [k \in DOMAIN volumePatterns |->
                      LET pattern == volumePatterns[k]
                          span == quotedSpan(message, Index(message, pattern) + Len(pattern))
                      IN  IF Contains(message, pattern) /\ span.found
                             /\ span.value # Empty /\ span.value # Unknown
                          THEN span ELSE NotFound]
        \* the token after a volume keyword
        volumeKeywords == <<<<"v","o","l","u","m","e">>, <<"V","o","l","u","m","e">>, <<"v","o","l","u","m","e","H","a","n","d","l","e">>, <<"v","o","l","u","m","e","I","d">>>>
        afterKeyword == [i \in DOMAIN words |->
                            LET nextWord == IF i + 1 <= Len(words)
                                            THEN Trim(words[i + 1], punctColon) ELSE Empty
                            IN  IF (\E k \in DOMAIN volumeKeywords : EqualFold(words[i], volumeKeywords[k]))
                                   /\ i + 1 <= Len(words)
                                   /\ nextWord # Empty /\ nextWord # Unknown
                                   /\ ~Contains(nextWord, <<" ">>)
                                THEN Found(nextWord) ELSE NotFound]
        \* any token that looks like a volume handle
        looksLike == [i \in DOMAIN words |->
                         LET cleanWord == Trim(words[i], punctColon)
                             marker == <<"v","o","l","u","m","e","s","=","[">>
                             volumePart == IF Contains(cleanWord, marker)
                                           THEN Trim(SplitSecond(cleanWord, marker), <<"[","]","(",")","\"","'",",",".">>)
                                           ELSE Empty
                         IN  IF Contains(cleanWord, marker) /\ volumePart # Empty /\ volumePart # Unknown
                             THEN Found(volumePart)
                             ELSE IF HasPrefix(cleanWord, PvcDash) THEN Found(cleanWord)
                             ELSE IF Len(cleanWord) > 10 /\ ContainsAny(cleanWord, Digits)
                                     /\ ContainsAny(cleanWord, LowerLetters)
                                     /\ ~Contains(cleanWord, <<"k","u","b","e","-","a","p","i","-","a","c","c","e","s","s","-">>)
                                     /\ ~Contains(cleanWord, <<"d","e","f","a","u","l","t","-","t","o","k","e","n","-">>)
                             THEN Found(cleanWord)
                             ELSE NotFound]
    IN  FirstFound(prefixed \o quoted \o afterKeyword \o looksLike, Unknown)

\* extractDriverFromMessage
extractDriverFromMessage(message, targetDriver) ==
    LET cands == [k \in DOMAIN knownDrivers |->
                     IF Contains(message, knownDrivers[k]) THEN Found(knownDrivers[k]) ELSE NotFound]
    IN  FirstFound(cands,
                   IF targetDriver # Empty /\ Contains(message, targetDriver)
                   THEN targetDriver ELSE Unknown)

\* extractNodeFromEvent
extractNodeFromEvent(event) ==
    LET nodePatterns == <<<<"n","o","d","e"," ","\"">>, <<"N","o","d","e"," ","\"">>, <<" ","n","o","d","e"," ">>, <<" ","N","o","d","e"," ">>>>
        cands == [k \in DOMAIN nodePatterns |->
                     LET pattern == nodePatterns[k]
                         start == Index(event.message, pattern) + Len(pattern)
                         words == Fields(From(event.message, start))
                         nodeName == IF Len(words) > 0 THEN Trim(words[1], <<"\"","'",",",".","(",")","[","]",":">>) ELSE Empty
                     IN  IF ~Contains(event.message, pattern) THEN NotFound
                         ELSE IF pattern[Len(pattern)] = "\"" THEN quotedSpan(event.message, start)
                         ELSE IF nodeName # Empty THEN Found(nodeName)
                         ELSE NotFound]
    IN  IF event.involvedKind = "Node" THEN event.involvedName
        ELSE IF event.sourceHost # Empty THEN event.sourceHost
        ELSE FirstFound(cands, Empty)

\* extractPVCFromEvent
extractPVCFromEvent(event) ==
    LET pvcPatterns == <<<<"p","v","c"," ","\"">>, <<"P","V","C"," ","\"">>, <<"p","e","r","s","i","s","t","e","n","t","v","o","l","u","m","e","c","l","a","i","m"," ","\"">>,
                         <<"P","e","r","s","i","s","t","e","n","t","V","o","l","u","m","e","C","l","a","i","m"," ","\"">>, <<"c","l","a","i","m"," ","\"">>>>
        quoted == [k \in DOMAIN pvcPatterns |->
                      IF Contains(event.message, pvcPatterns[k])
                      THEN quotedSpan(event.message,
                                      Index(event.message, pvcPatterns[k]) + Len(pvcPatterns[k]))
                      ELSE NotFound]
        pvcWords == <<<<"p","v","c">>, <<"P","V","C">>, <<"c","l","a","i","m">>>>
        words == Fields(event.message)
        afterWord == [i \in DOMAIN words |->
                         LET nextWord == IF i + 1 <= Len(words)
                                         THEN Trim(words[i + 1], <<"\"","'",",",".","(",")","[","]",":">>) ELSE Empty
                         IN  IF (\E k \in DOMAIN pvcWords : EqualFold(words[i], pvcWords[k]))
                                /\ i + 1 <= Len(words)
                                /\ nextWord # Empty /\ ~Contains(nextWord, <<" ">>)
                             THEN Found(nextWord) ELSE NotFound]
    IN  IF event.involvedKind = "PersistentVolumeClaim" THEN event.involvedName
        ELSE IF event.involvedKind = "Pod" THEN FirstFound(quoted \o afterWord, Empty)
        ELSE Empty

\* getNodeForDisplay
getNodeForDisplay(event) ==
    IF event.involvedKind = "Node" THEN event.involvedName
    ELSE IF event.involvedKind = "Pod"
         THEN IF event.sourceHost # Empty THEN event.sourceHost ELSE extractNodeFromEvent(event)
    ELSE IF event.sourceHost # Empty THEN event.sourceHost
    ELSE Empty

\* getPVCForDisplay
getPVCForDisplay(event) ==
    IF event.involvedKind = "PersistentVolumeClaim"
    THEN IF event.involvedNamespace # Empty /\ event.involvedNamespace # event.namespace
         THEN event.involvedNamespace \o <<"/">> \o event.involvedName
         ELSE event.involvedName
    ELSE IF event.involvedKind = "Pod" THEN extractPVCFromEvent(event)
    ELSE Empty

\* isCSIRelatedEvent
isCSIRelatedEvent(event) ==
    LET csiDriverPatterns == <<DotCSIDot, <<"c","s","i",".","o","p","e","n","s","t","a","c","k",".","o","r","g">>, <<"c","s","i",".","c","e","p","h",".","c","o","m">>,
                               <<"c","s","i",".","a","w","s",".","c","o","m">>, <<"c","s","i",".","a","z","u","r","e",".","c","o","m">>, <<"c","s","i",".","s","t","o","r","a","g","e",".","g","k","e",".","i","o">>>>
        csiVolumeReasons == <<<<"V","o","l","u","m","e","B","i","n","d","i","n","g","F","a","i","l","e","d">>, <<"P","r","o","v","i","s","i","o","n","i","n","g","F","a","i","l","e","d">>,
                              <<"V","o","l","u","m","e","F","a","i","l","e","d","M","o","u","n","t">>, <<"V","o","l","u","m","e","F","a","i","l","e","d","U","n","m","o","u","n","t">>,
                              <<"V","o","l","u","m","e","R","e","s","i","z","e","F","a","i","l","e","d">>, <<"V","o","l","u","m","e","R","e","s","i","z","i","n","g">>>>
        excludePatterns == <<<<"k","u","b","e","-","a","p","i","-","a","c","c","e","s","s","-">>, <<"d","e","f","a","u","l","t","-","t","o","k","e","n","-">>, <<"c","o","n","f","i","g","m","a","p">>,
                             <<"s","e","c","r","e","t">>, <<"s","e","r","v","i","c","e","a","c","c","o","u","n","t">>>>
    IN  IF Contains(event.message, CSIText) \/ Contains(event.reason, CSIText) THEN TRUE
        ELSE IF \E k \in DOMAIN csiDriverPatterns : Contains(event.message, csiDriverPatterns[k])
             THEN TRUE
        ELSE IF \E k \in DOMAIN csiVolumeReasons : event.reason = csiVolumeReasons[k] THEN TRUE
        ELSE IF (Contains(event.message, <<"S","t","o","r","a","g","e","C","l","a","s","s">>) \/ Contains(event.message, <<"s","t","o","r","a","g","e","c","l","a","s","s">>))
                /\ (Contains(event.message, <<"P","e","r","s","i","s","t","e","n","t","V","o","l","u","m","e">>) \/ Contains(event.message, <<"v","o","l","u","m","e">>))
             THEN TRUE
        ELSE IF \E k \in DOMAIN excludePatterns : Contains(event.message, excludePatterns[k])
             THEN FALSE
        ELSE FALSE

\* the finding analyzeEvent builds once the type is decided
eventIssue(event, type, targetDriver) ==
    CSIMountIssue(type, calculateEventSeverity(event), getNodeForDisplay(event),
                  extractVolumeFromMessage(event.message), getPVCForDisplay(event),
                  event.namespace, extractDriverFromMessage(event.message, targetDriver),
                  EventsMethod, event.name, <<>>)

\* analyzeEvent asking for a Warning in its first rule too
analyzeEvent_warningsOnly(event, targetDriver) ==
    IF event.type # WarningType THEN <<>>
    ELSE IF Contains(event.message, MultiAttachText)
    THEN <<eventIssue(event, MultiAttachError, targetDriver)>>
    ELSE IF event.reason = FailedAttachVolumeText
    THEN <<eventIssue(event, FailedAttachVolume, targetDriver)>>
    ELSE IF event.reason = FailedMountText
    THEN IF Contains(event.message, GetDeviceMountRefsText)
         THEN <<eventIssue(event, StuckMountReference, targetDriver)>>
         ELSE <<eventIssue(event, CSIOperationFailure, targetDriver)>>
    ELSE IF isCSIRelatedEvent(event)
    THEN <<eventIssue(event, CSIOperationFailure, targetDriver)>>
    ELSE <<>>

\* analyzeEvent: the finding, or none
analyzeEvent(event, targetDriver) ==
    IF Contains(event.message, MultiAttachText)
    THEN <<eventIssue(event, MultiAttachError, targetDriver)>>
    ELSE IF event.reason = FailedAttachVolumeText /\ event.type = WarningType
    THEN <<eventIssue(event, FailedAttachVolume, targetDriver)>>
    ELSE IF event.reason = FailedMountText /\ event.type = WarningType
    THEN IF Contains(event.message, GetDeviceMountRefsText)
         THEN <<eventIssue(event, StuckMountReference, targetDriver)>>
         ELSE <<eventIssue(event, CSIOperationFailure, targetDriver)>>
    ELSE IF event.type = WarningType /\ isCSIRelatedEvent(event)
    THEN <<eventIssue(event, CSIOperationFailure, targetDriver)>>
    ELSE <<>>

\* the "skip old events" test of Detect: TRUE when the event is kept
isRecent(event, lookback) ==
    LET cutoffTime == Now - lookback
    IN  ~(event.lastTimestamp < cutoffTime /\ event.eventTime < cutoffTime)

\* the findings the loop of EventsDetector.Detect appends for one event
eventFindings(event, targetDriver, lookback) ==
    IF ~isRecent(event, lookback) THEN <<>>
    ELSE IF targetDriver # Empty /\ ~eventMatchesDriver(event, targetDriver) THEN <<>>
    ELSE analyzeEvent(event, targetDriver)

\* EventsDetector.Detect: the findings (issues), the error (failed) and the calls made
EventsDetect(eventList, listFails, targetDriver, lookback, cancelAt) ==
    LET listEvents == Read("listEvents", listFails, <<>>, cancelAt)
    IN  IF listEvents.outcome # ReadOk
        THEN [issues |-> <<>>, failed |-> TRUE, log |-> <<listEvents>>]
        ELSE [issues |-> Flatten([i \in DOMAIN eventList |->
                            eventFindings(eventList[i], targetDriver, lookback)]),
              failed |-> FALSE,
              log |-> <<listEvents>>]

-----------------------------------------------------------------------------
(* Metrics detector *)

\* MetricsDetector.Detect
MetricsDetect == <<>>

-----------------------------------------------------------------------------
(* Coordinator: pkg/detect/detector.go *)

\* the declaration order of the detector blocks of DetectAll
DeclarationOrder == <<VolumeAttachmentMethod, CrossNodePVCMethod, EventsMethod, MetricsMethod>>

\* a constructor that enables every detector whatever the methods
NewDetector_enablesAll(methods) == DetectionMethods

\* NewDetector: the detector fields that are set after the loop over options.Methods
NewDetector(methods) == {m \in DetectionMethods : \E i \in DOMAIN methods : methods[i] = m}

\* severityOrder[s] of filterBySeverity; a key the map lacks reads as 0
severityOrder(s) ==
    CASE s = SeverityLow -> 1
      [] s = SeverityMedium -> 2
      [] s = SeverityHigh -> 3
      [] s = SeverityCritical -> 4
      [] OTHER -> 0

\* a filter that also drops the findings at the minimum itself
filterBySeverity_strictlyAbove(issues, minSeverity) ==
    IF minSeverity = "" THEN issues
    ELSE SelectSeq(issues, LAMBDA issue : severityOrder(issue.severity) > severityOrder(minSeverity))

\* filterBySeverity
filterBySeverity(issues, minSeverity) ==
    IF minSeverity = "" THEN issues
    ELSE SelectSeq(issues, LAMBDA issue : severityOrder(issue.severity) >= severityOrder(minSeverity))

\* a counting loop that stores 1 instead of incrementing
RECURSIVE countBy_storesOne(_, _, _)
countBy_storesOne(issues, key, i) ==
    IF i = 0 THEN <<>>
    ELSE LET counts == countBy_storesOne(issues, key, i - 1)
             k == issues[i][key]
         IN  IF k \in DOMAIN counts
             THEN [counts EXCEPT ![k] = 1]
             ELSE (k :> 1) @@ counts

\* the counting loop of generateSummary over issues[1..i], for the field named by key
RECURSIVE countBy(_, _, _)
countBy(issues, key, i) ==
    IF i = 0 THEN <<>>
    ELSE LET counts == countBy(issues, key, i - 1)
             k == issues[i][key]
         IN  IF k \in DOMAIN counts
             THEN [counts EXCEPT ![k] = @ + 1]
             ELSE (k :> 1) @@ counts

\* generateSummary tracking the node and the driver of every issue, empty or not
generateSummary_tracksEmptyFields(issues, used) ==
    [totalIssues |-> Len(issues),
     issuesBySeverity |-> countBy(issues, "severity", Len(issues)),
     issuesByType |-> countBy(issues, "type", Len(issues)),
     affectedNodes |-> SortedSeq({issues[i].node : i \in DOMAIN issues}),
     affectedDrivers |-> SortedSeq({issues[i].driver : i \in DOMAIN issues}),
     methodsUsed |-> used]

\* generateSummary
generateSummary(issues, used) ==
    [totalIssues |-> Len(issues),
     issuesBySeverity |-> countBy(issues, "severity", Len(issues)),
     issuesByType |-> countBy(issues, "type", Len(issues)),
     affectedNodes |-> SortedSeq({issues[i].node : i \in DOMAIN issues} \ {Empty}),
     affectedDrivers |-> SortedSeq({issues[i].driver : i \in DOMAIN issues} \ {Empty}),
     methodsUsed |-> used]

\* one block of the recommendation list; detail carries the names the block prints
Block(name, detail) == [block |-> name, detail |-> detail]

\* the block generateRecommendations appends for one affected driver
driverBlock(driver) ==
    IF driver = <<"c","i","n","d","e","r",".","c","s","i",".","o","p","e","n","s","t","a","c","k",".","o","r","g">> THEN Block("driver-cinder", <<driver>>)
    ELSE IF driver \in {<<"r","o","o","k","-","c","e","p","h",".","r","b","d",".","c","s","i",".","c","e","p","h",".","c","o","m">>, <<"r","o","o","k","-","c","e","p","h",".","c","e","p","h","f","s",".","c","s","i",".","c","e","p","h",".","c","o","m">>}
    THEN Block("driver-rook-ceph", <<driver>>)
    ELSE Block("driver-generic", <<driver>>)

\* the key set of the map affectedDrivers of generateRecommendations
affectedDriverSet(issues) == {issues[i].driver : i \in DOMAIN issues} \ {Empty}

\* generateRecommendations, block by block; driverOrder is the order in which the map
\* affectedDrivers is ranged over
generateRecommendations(issues, driverOrder) ==
    LET has(type) == \E i \in DOMAIN issues : issues[i].type = type
        affectedNodes == {issues[i].node : i \in DOMAIN issues} \ {Empty}
    IN  <<Block("immediate-actions", <<>>)>>
        \o (IF has(VolumeAttachmentConflict) \/ has(MultipleAttachments)
            THEN <<Block("check-volume-attachments", <<>>)>> ELSE <<>>)
        \o (IF has(StuckMountReference) THEN <<Block("check-mount-references", <<>>)>> ELSE <<>>)
        \o (IF has(CSIOperationFailure) THEN <<Block("review-csi-driver-logs", <<>>)>> ELSE <<>>)
        \o (IF Cardinality(affectedNodes) > 0
            THEN <<Block("affected-nodes", SortedSeq(affectedNodes))>>
                 \o (IF Cardinality(affectedNodes) > 10
                     THEN <<Block("high-impact", <<>>)>> ELSE <<>>)
            ELSE <<>>)
        \o (IF Len(driverOrder) > 0
            THEN <<Block("driver-specific-actions", <<>>)>>
                 \o [k \in DOMAIN driverOrder |-> driverBlock(driverOrder[k])]
            ELSE <<>>)
        \o <<Block("long-term-solutions", <<>>), Block("safety-warnings", <<>>)>>

NoResult == [isNil |-> TRUE]

\* &DetailedAnalysis{}: every field at its zero value
ZeroAnalysis ==
    [volumeAttachmentCount |-> 0, attachedVolumeCount |-> 0, volumeAttachmentErrors |-> 0,
     nodePVCUsage |-> <<>>, recentEvents |-> <<>>, metricQueries |-> <<>>,
     recommendedAlerts |-> <<>>]
NoError == [isNil |-> TRUE]

\* what an extractor has returned: nothing yet
NotExtracted == [volumeDone |-> FALSE, volume |-> Empty, driverDone |-> FALSE, driver |-> Empty]

\* the message miner is not in use
MinerIdle == minedMessage = Empty /\ extracted = NotExtracted /\ reextracted = NotExtracted

\* WaitForJobs is not in use
WaitIdle ==
    /\ jobNames = <<>> /\ jobs = <<>> /\ tickReady = FALSE
    /\ checkIndex = 1 /\ allComplete = TRUE /\ seen = <<>>

\* what CreateCleanupJob has returned: nothing yet
NotReturned == [returned |-> FALSE, jobName |-> Empty, err |-> NoError]

\* CreateCleanupJob is not in use
CleanupIdle ==
    /\ cleanupPc = "idle" /\ cleanupCalls = 0 /\ objects = <<>> /\ currentJob = Empty
    /\ cleanupReturn = NotReturned /\ applyLog = <<>>
    /\ clusterJobs = {} /\ serviceAccounts = {}

\* fmt.Errorf("<detector> detection failed: %w", err): the detector named and the cause kept
DetectionFailed(method, cause) == [isNil |-> FALSE, detector |-> method, cause |-> cause]

\* the position after the block of method m in DetectAll
NextPosition(m) ==
    CASE m = VolumeAttachmentMethod -> CrossNodePVCMethod
      [] m = CrossNodePVCMethod -> EventsMethod
      [] m = EventsMethod -> MetricsMethod
      [] m = MetricsMethod -> "finish"

\* a failure that is recorded but does not stop DetectAll
Abort_carriesOn(method, log) ==
    /\ pc' = NextPosition(method)
    /\ result' = NoResult
    /\ err' = DetectionFailed(method, log[Len(log)].outcome)
    /\ UNCHANGED <<produced, allIssues, methodsUsed>>

\* "return nil, fmt.Errorf(...)" inside DetectAll
Abort(method, log) ==
    /\ pc' = "done"
    /\ result' = NoResult
    /\ err' = DetectionFailed(method, log[Len(log)].outcome)
    /\ UNCHANGED <<produced, allIssues, methodsUsed>>

\* findings put in front of the ones collected so far
Collect_prepends(method, issues) ==
    /\ pc' = NextPosition(method)
    /\ produced' = [produced EXCEPT ![method] = issues]
    /\ allIssues' = issues \o allIssues
    /\ methodsUsed' = Append(methodsUsed, method)
    /\ UNCHANGED <<result, err>>

\* "allIssues = append(allIssues, issues...); methodsUsed = append(methodsUsed, m)"
Collect(method, issues) ==
    /\ pc' = NextPosition(method)
    /\ produced' = [produced EXCEPT ![method] = issues]
    /\ allIssues' = allIssues \o issues
    /\ methodsUsed' = Append(methodsUsed, method)
    /\ UNCHANGED <<result, err>>

\* what a detector call leaves behind in the environment
Called(method, log) ==
    /\ invoked' = Append(invoked, method)
    /\ readLog' = readLog \o log
    /\ ctxCancelled' = (ctxCancelled \/ \E i \in DOMAIN log : log[i].outcome = ReadCancelled)
    /\ UNCHANGED <<options, attachments, pods, pvcs, events, detectors>>
    /\ UNCHANGED otherCalls

\* the points at which the context may fire during a detector call that makes at most n reads
CancelPoints(n) == IF ctxCancelled THEN {0} ELSE 0..n

\* DetectAll finds the detector field of the block at pc nil and moves on
SkipDetector ==
    /\ pc \in DetectionMethods
    /\ pc \notin detectors
    /\ pc' = NextPosition(pc)
    /\ UNCHANGED <<options, attachments, pods, pvcs, events, ctxCancelled,
                   detectors, invoked, readLog, produced, allIssues, methodsUsed,
                   result, err>>
    /\ UNCHANGED otherCalls

\* DetectAll: "Run VolumeAttachment detection"
RunVolumeAttachmentDetection ==
    /\ pc = VolumeAttachmentMethod
    /\ pc \in detectors
    /\ \E cancelAt \in CancelPoints(1), listFails \in BOOLEAN :
       \E order \in Perms(volumeHandleKeys(attachments, options.targetDriver)) :
         LET d == VolumeAttachmentDetect(attachments, listFails, options.targetDriver,
                                         cancelAt, order)
         IN  /\ Called(VolumeAttachmentMethod, d.log)
             /\ IF d.failed
                THEN Abort(VolumeAttachmentMethod, d.log)
                ELSE Collect(VolumeAttachmentMethod, d.issues)

\* DetectAll: "Run cross-node PVC detection"
RunCrossNodePVCDetection ==
    /\ pc = CrossNodePVCMethod
    /\ pc \in detectors
    /\ \E cancelAt \in CancelPoints(crossNodeReads(pods, pvcs)), listFails \in BOOLEAN :
       \E keyOrder \in Perms(pvcKeys(pods)) :
       \E nodeOrder \in validNodeOrders(pods) :
         LET d == CrossNodePVCDetect(pods, pvcs, listFails, options.targetDriver,
                                     cancelAt, keyOrder, nodeOrder)
         IN  /\ Called(CrossNodePVCMethod, d.log)
             /\ IF d.failed
                THEN Abort(CrossNodePVCMethod, d.log)
                ELSE Collect(CrossNodePVCMethod, d.issues)

\* DetectAll: "Run events detection"
RunEventsDetection ==
    /\ pc = EventsMethod
    /\ pc \in detectors
    /\ \E cancelAt \in CancelPoints(1), listFails \in BOOLEAN :
         LET d == EventsDetect(events, listFails, options.targetDriver,
                               LookbackDuration, cancelAt)
         IN  /\ Called(EventsMethod, d.log)
             /\ IF d.failed
                THEN Abort(EventsMethod, d.log)
                ELSE Collect(EventsMethod, d.issues)

\* DetectAll: "Run metrics detection"
RunMetricsDetection ==
    /\ pc = MetricsMethod
    /\ pc \in detectors
    /\ Called(MetricsMethod, <<>>)
    /\ Collect(MetricsMethod, MetricsDetect)

\* DetectAll from "Filter by minimum severity" to the return
Finish ==
    /\ pc = "finish"
    /\ LET filteredIssues == filterBySeverity(allIssues, options.minSeverity)
           summary == generateSummary(filteredIssues, methodsUsed)
       IN  \E driverOrder \in IF options.recommendCleanup
                               THEN Perms(affectedDriverSet(filteredIssues))
                               ELSE {<<>>} :
             result' = [isNil |-> FALSE,
                        summary |-> summary,
                        issues |-> filteredIssues,
                        recommendations |-> IF options.recommendCleanup
                                            THEN generateRecommendations(filteredIssues, driverOrder)
                                            ELSE <<>>]
    /\ err' = NoError
    /\ pc' = "done"
    /\ UNCHANGED <<options, attachments, pods, pvcs, events, ctxCancelled,
                   detectors, invoked, readLog, produced, allIssues, methodsUsed>>
    /\ UNCHANGED otherCalls

-----------------------------------------------------------------------------
(* Cluster snapshots and configurations the model is run on *)

TestDriver == <<"t","e","s","t",".","c","s","i",".","d","r","i","v","e","r">>
OtherDriver == <<"e","b","s",".","c","s","i",".","a","w","s",".","c","o","m">>
Node1 == <<"n","o","d","e","-","1">>
Node2 == <<"n","o","d","e","-","2">>
DefaultNamespace == <<"d","e","f","a","u","l","t">>

SeqsUpTo(S, n) == UNION {[1..k -> S] : k \in 0..n}

\* storagev1.VolumeAttachmentSource
PVSource(pvName) ==
    [hasPV |-> TRUE, pvName |-> pvName, hasInline |-> FALSE, hasCSI |-> FALSE,
     csiDriver |-> Empty, csiHandle |-> Empty]
InlineCSISource(driver, handle) ==
    [hasPV |-> FALSE, pvName |-> Empty, hasInline |-> TRUE, hasCSI |-> TRUE,
     csiDriver |-> driver, csiHandle |-> handle]
InlineNonCSISource ==
    [hasPV |-> FALSE, pvName |-> Empty, hasInline |-> TRUE, hasCSI |-> FALSE,
     csiDriver |-> Empty, csiHandle |-> Empty]
NoSource ==
    [hasPV |-> FALSE, pvName |-> Empty, hasInline |-> FALSE, hasCSI |-> FALSE,
     csiDriver |-> Empty, csiHandle |-> Empty]

\* storagev1.VolumeAttachment: the fields Detect reads
VolumeAttachment(name, attacher, node, source, attached, attachError, detachError, created) ==
    [name |-> name, attacher |-> attacher, node |-> node, source |-> source,
     attached |-> attached, attachError |-> attachError, detachError |-> detachError,
     created |-> created]

\* object names are unique in a list: the record at position i is named va-i
VAName(i) == <<"v","a","-">> \o Itoa(i)
Named(vas) == [i \in DOMAIN vas |-> [vas[i] EXCEPT !.name = VAName(i)]]

\* corev1.Pod: the fields Detect reads
Pod(namespace, node, volumes) == [namespace |-> namespace, node |-> node, volumes |-> volumes]
PVCVolume(claimName) == [hasPVC |-> TRUE, claimName |-> claimName]
OtherVolume == [hasPVC |-> FALSE, claimName |-> Empty]

\* what getPVCDriver finds for one PVC
BoundCSI(driver) ==
    [pvcErr |-> FALSE, volumeName |-> <<"p","v","-","b","o","u","n","d">>, pvErr |-> FALSE, pvHasCSI |-> TRUE,
     pvDriver |-> driver, hasStorageClass |-> FALSE, scErr |-> FALSE, provisioner |-> Empty]
ViaStorageClass(provisioner) ==
    [pvcErr |-> FALSE, volumeName |-> Empty, pvErr |-> FALSE, pvHasCSI |-> FALSE,
     pvDriver |-> Empty, hasStorageClass |-> TRUE, scErr |-> FALSE, provisioner |-> provisioner]
PVCLookupFails ==
    [pvcErr |-> TRUE, volumeName |-> Empty, pvErr |-> FALSE, pvHasCSI |-> FALSE,
     pvDriver |-> Empty, hasStorageClass |-> FALSE, scErr |-> FALSE, provisioner |-> Empty]

\* corev1.Event: the fields the events detector reads
Event(name, type, reason, message, lastTimestamp, eventTime, count, kind, host) ==
    [name |-> name, type |-> type, reason |-> reason, message |-> message,
     lastTimestamp |-> lastTimestamp, eventTime |-> eventTime, count |-> count,
     namespace |-> DefaultNamespace, involvedKind |-> kind, involvedName |-> <<"w","e","b","-","0">>,
     involvedNamespace |-> DefaultNamespace, sourceHost |-> host]

EventName(i) == <<"e","v","e","n","t","-">> \o Itoa(i)
NamedEvents(es) == [i \in DOMAIN es |-> [es[i] EXCEPT !.name = EventName(i)]]

ClaimA == <<"d","a","t","a","-","a">>
ClaimB == <<"d","a","t","a","-","b">>

MsgMultiAttach == <<"M","u","l","t","i","-","A","t","t","a","c","h"," ","e","r","r","o","r"," ","f","o","r"," ","v","o","l","u","m","e"," ","p","v","c","-","1","2","3">>
MsgMountRefs == <<"M","o","u","n","t","V","o","l","u","m","e",".","S","e","t","U","p"," ","f","a","i","l","e","d"," ","f","o","r"," ","v","o","l","u","m","e"," ","\"","p","v","c","-","7","8","9","\""," ",":"," ","G","e","t","D","e","v","i","c","e","M","o","u","n","t","R","e","f","s"," ","r","e","t","u","r","n","e","d"," ","e","r","r","o","r">>
MsgOtherDriver == <<"r","p","c"," ","e","r","r","o","r"," ","f","r","o","m"," ","e","b","s",".","c","s","i",".","a","w","s",".","c","o","m"," ","o","n"," ","n","o","d","e"," ","n","o","d","e","-","2">>
MsgPlain == <<"S","u","c","c","e","s","s","f","u","l","l","y"," ","a","s","s","i","g","n","e","d"," ","p","o","d">>
MsgBothDrivers == <<"t","e","s","t",".","c","s","i",".","d","r","i","v","e","r"," ","f","a","i","l","e","d"," ","t","o"," ","t","a","k","e"," ","o","v","e","r"," ","t","h","e"," ","v","o","l","u","m","e"," ","f","r","o","m"," ","e","b","s",".","c","s","i",".","a","w","s",".","c","o","m">>

\* a cluster with nothing in it
EmptySnapshot ==
    [attachments |-> <<>>, pods |-> <<>>, pvcs |-> <<>>, events |-> <<>>]

\* a cluster with two doubly-attached volumes, a failed and a stuck attachment, two PVCs
\* used on two nodes, and three events
BusySnapshot ==
    [attachments |-> Named(<<
        VolumeAttachment(Empty, TestDriver, Node1, PVSource(<<"p","v","-","1">>), TRUE, FALSE, FALSE, Now - 500),
        VolumeAttachment(Empty, TestDriver, Node2, PVSource(<<"p","v","-","1">>), TRUE, FALSE, TRUE, Now - 500),
        VolumeAttachment(Empty, TestDriver, Node1, InlineCSISource(TestDriver, <<"v","o","l","-","2">>), TRUE, FALSE, FALSE, Now - 500),
        VolumeAttachment(Empty, TestDriver, Node2, InlineCSISource(TestDriver, <<"v","o","l","-","2">>), TRUE, FALSE, FALSE, Now - 500),
        VolumeAttachment(Empty, OtherDriver, Node2, InlineNonCSISource, FALSE, TRUE, FALSE, Now - 500),
        VolumeAttachment(Empty, TestDriver, Node1, NoSource, FALSE, FALSE, FALSE, Now - 300)>>),
     pods |-> <<Pod(DefaultNamespace, Node1, <<PVCVolume(ClaimA), OtherVolume, PVCVolume(ClaimB)>>),
                Pod(DefaultNamespace, Node2, <<PVCVolume(ClaimA), PVCVolume(ClaimB)>>),
                Pod(DefaultNamespace, Empty, <<PVCVolume(ClaimA)>>)>>,
     pvcs |-> (pvcKeyOf(DefaultNamespace, ClaimA) :> BoundCSI(TestDriver))
              @@ (pvcKeyOf(DefaultNamespace, ClaimB) :> ViaStorageClass(OtherDriver)),
     events |-> NamedEvents(<<
        Event(Empty, WarningType, FailedAttachVolumeText, MsgMultiAttach, Now - 30, 0, 3, "Pod", Node1),
        Event(Empty, WarningType, FailedMountText, MsgOtherDriver, 0, Now - 5, 1, "Pod", Empty),
        Event(Empty, WarningType, FailedMountText, MsgMountRefs, Now - 120, 0, 7, "Pod", Node1)>>)]

Snapshots == {EmptySnapshot, BusySnapshot}

-----------------------------------------------------------------------------
(* DetectAll on a configured Detector *)

Init ==
    /\ options \in [methods : SeqsUpTo(DetectionMethods, MaxMethods),
                    targetDriver : {Empty, TestDriver},
                    minSeverity : {""} \cup Severities,
                    recommendCleanup : BOOLEAN]
    /\ \E snapshot \in Snapshots :
         /\ attachments = snapshot.attachments
         /\ pods = snapshot.pods
         /\ pvcs = snapshot.pvcs
         /\ events = snapshot.events
    /\ ctxCancelled = FALSE
    /\ detectors = NewDetector(options.methods)
    /\ pc = VolumeAttachmentMethod
    /\ invoked = <<>>
    /\ readLog = <<>>
    /\ produced = [m \in DetectionMethods |-> <<>>]
    /\ allIssues = <<>>
    /\ methodsUsed = <<>>
    /\ result = NoResult
    /\ err = NoError
    /\ analysis = ZeroAnalysis
    /\ MinerIdle
    /\ WaitIdle
    /\ CleanupIdle

Next ==
    \/ SkipDetector
    \/ RunVolumeAttachmentDetection
    \/ RunCrossNodePVCDetection
    \/ RunEventsDetection
    \/ RunMetricsDetection
    \/ Finish

Spec == Init /\ [][Next]_vars

-----------------------------------------------------------------------------
(* Properties of DetectAll *)

\* DetectAll has returned a DetectionResult
Returned == pc = "done" /\ ~result.isNil

\* the number of positions of issues whose field key has the value v
Occurrences(issues, key, v) == Cardinality({i \in DOMAIN issues : issues[i][key] = v})

\* the count a summary map holds for v; an absent key reads as 0
CountIn(counts, v) == IF v \in DOMAIN counts THEN counts[v] ELSE 0

\* C1: in every returned DetectionResult summary.totalIssues is the number of returned
\* issues, and the per-severity and per-type counts are the numbers of returned issues
\* of that severity and type, so that each map sums to totalIssues; the counts are
\* those of the findings that survived the minimum-severity filter.
C1_SummaryCountsReturnedIssues ==
    Returned =>
        /\ result.summary.totalIssues = Len(result.issues)
        /\ DOMAIN result.summary.issuesBySeverity \subseteq Severities
        /\ DOMAIN result.summary.issuesByType \subseteq IssueTypes
        /\ \A s \in Severities :
             CountIn(result.summary.issuesBySeverity, s) = Occurrences(result.issues, "severity", s)
        /\ \A t \in IssueTypes :
             CountIn(result.summary.issuesByType, t) = Occurrences(result.issues, "type", t)
        /\ SumOver(result.summary.issuesBySeverity, DOMAIN result.summary.issuesBySeverity)
             = result.summary.totalIssues
        /\ SumOver(result.summary.issuesByType, DOMAIN result.summary.issuesByType)
             = result.summary.totalIssues

\* a result whose filter dropped findings and kept two of one severity
C1_Witness ==
    /\ Returned
    /\ Len(result.issues) < Len(allIssues)
    /\ \E s \in Severities : CountIn(result.summary.issuesBySeverity, s) >= 2

\* the rank of a severity: low=1 < medium=2 < high=3 < critical=4
Rank(s) == CHOOSE r \in 1..4 : <<SeverityLow, SeverityMedium, SeverityHigh, SeverityCritical>>[r] = s

\* finding f passes the configured minimum severity
Passes(f) == options.minSeverity = "" \/ Rank(f.severity) >= Rank(options.minSeverity)

\* C2: with MinSeverity one of low/medium/high/critical the returned issues are exactly
\* the detector findings of rank >= the rank of MinSeverity: none below the minimum is
\* returned and none at or above it is dropped; with MinSeverity unset nothing is
\* filtered.
C2_ExactlyTheFindingsAtOrAboveMinimum ==
    Returned =>
        /\ \A i \in DOMAIN result.issues : Passes(result.issues[i])
        /\ \A f \in Range(allIssues) :
             Passes(f) => f \in Range(result.issues)
        /\ Len(result.issues) = Cardinality({j \in DOMAIN allIssues : Passes(allIssues[j])})
        /\ Range(result.issues) \subseteq Range(allIssues)
        /\ options.minSeverity = "" => result.issues = allIssues

\* a result with minimum high: a medium finding dropped, a high finding kept
C2_Witness ==
    /\ Returned
    /\ options.minSeverity = SeverityHigh
    /\ \E f \in Range(allIssues) : f.severity = SeverityMedium
    /\ \E f \in Range(result.issues) : f.severity = SeverityHigh

\* no Cluster Reader call of the run was cancelled
NoReadCancelled == \A i \in DOMAIN readLog : readLog[i].outcome # ReadCancelled

\* for each PVC key, the nodes of its usage map in sorted order
SortedNodeOrder(podList) ==
    [key \in pvcKeys(podList) |-> SortedSeq(DOMAIN nodeUsageOf(podRefs(podList), key))]

\* the findings of detector m on the snapshot when every map is ranged over in sorted
\* key order
SortedFindings(m) ==
    CASE m = VolumeAttachmentMethod ->
           VolumeAttachmentDetect(attachments, FALSE, options.targetDriver, 1,
               SortedSeq(volumeHandleKeys(attachments, options.targetDriver))).issues
      [] m = CrossNodePVCMethod ->
           CrossNodePVCDetect(pods, pvcs, FALSE, options.targetDriver,
               crossNodeReads(pods, pvcs), SortedSeq(pvcKeys(pods)), SortedNodeOrder(pods)).issues
      [] m = EventsMethod ->
           EventsDetect(events, FALSE, options.targetDriver, LookbackDuration, 1).issues
      [] m = MetricsMethod -> MetricsDetect

\* the issues of the run of the selected detectors in which every map is ranged over in
\* sorted key order
SortedIssues(selected) ==
    SelectSeq(Flatten([k \in DOMAIN DeclarationOrder |->
                         IF DeclarationOrder[k] \in selected
                         THEN SortedFindings(DeclarationOrder[k]) ELSE <<>>]),
              Passes)

\* C3: two runs of DetectAll on the same snapshot with the same configuration return the
\* same findings in the same order with the same field values and the same
\* recommendation blocks: whatever order the maps are ranged over in, a run returns
\* what the run that ranges over them in sorted key order returns.
C3_RunsAgree ==
    (Returned /\ NoReadCancelled) =>
        /\ result.issues = SortedIssues(Range(options.methods))
        /\ options.recommendCleanup =>
             result.recommendations =
                 generateRecommendations(result.issues,
                                         SortedSeq(affectedDriverSet(result.issues)))

\* the calls that list objects: the calls whose error a detector returns
ListCalls == {"listAttachments", "listPods", "listEvents"}

\* the selected methods in declaration order
SelectedInOrder == SelectSeq(DeclarationOrder, LAMBDA m : m \in Range(options.methods))

\* the part of the sequence seq up to and including the first occurrence of x
UpTo(seq, x) == SubSeq(seq, 1, CHOOSE i \in DOMAIN seq : seq[i] = x /\ \A j \in 1..(i - 1) : seq[j] # x)

\* C4: if a selected detector returns an error, DetectAll returns a nil result and an
\* error that wraps the detector's error under that detector's name; no detector later
\* in the declaration order is invoked after the failure, and the findings collected
\* from the earlier detectors are not returned.
C4_FirstDetectorErrorAborts ==
    LET failed == {i \in DOMAIN readLog :
                      readLog[i].call \in ListCalls /\ readLog[i].outcome # ReadOk}
    IN  /\ failed # {} =>
              /\ pc = "done"
              /\ result.isNil
              /\ ~err.isNil
              /\ Cardinality(failed) = 1
              /\ failed = {Len(readLog)}
              /\ err.cause = readLog[Len(readLog)].outcome
              /\ err.detector \in Range(options.methods)
              /\ invoked = UpTo(SelectedInOrder, err.detector)
        /\ (pc = "done" /\ failed = {}) => ~result.isNil /\ err.isNil

\* DetectAll failed in the cross-node PVC detector after the volume-attachment detector
\* had delivered findings
C4_Witness ==
    /\ pc = "done"
    /\ ~err.isNil
    /\ err.detector = CrossNodePVCMethod
    /\ result.isNil
    /\ allIssues # <<>>

\* C5: if any Cluster Reader call made during DetectAll (list attachments, list pods,
\* get PVC, get PV, get StorageClass, list events) returns a cancellation error,
\* DetectAll returns a cancellation error and no DetectionResult.
C5_CancelledReadAbortsDetectAll ==
    (pc = "done" /\ ~NoReadCancelled) =>
        /\ result.isNil
        /\ ~err.isNil
        /\ err.cause = ReadCancelled

\* the position of method m in the declaration order
DeclaredAt(m) == CHOOSE k \in DOMAIN DeclarationOrder : DeclarationOrder[k] = m

\* C6: in the returned issues the findings of the volume-attachment detector precede
\* those of the cross-node PVC detector, which precede those of the events detector,
\* which precede those of the metrics detector, whatever the order of Methods; the
\* findings of one detector keep the order in which the detector produced them, also
\* after the minimum-severity filter.
C6_DeclarationOrderKept ==
    Returned =>
        /\ \A i, j \in DOMAIN result.issues :
             i < j => DeclaredAt(result.issues[i].detectedBy) <= DeclaredAt(result.issues[j].detectedBy)
        /\ \A m \in DetectionMethods :
             SelectSeq(result.issues, LAMBDA f : f.detectedBy = m) = SelectSeq(produced[m], Passes)

\* Methods lists events before volumeattachments and both delivered returned findings
C6_Witness ==
    /\ Returned
    /\ options.methods = <<EventsMethod, VolumeAttachmentMethod>>
    /\ \E f \in Range(result.issues) : f.detectedBy = EventsMethod
    /\ Cardinality({i \in DOMAIN result.issues : result.issues[i].detectedBy = VolumeAttachmentMethod}) >= 2

\* the findings detector m can deliver on the snapshot when no read fails: one sequence
\* for each order in which its maps may be ranged over
PossibleFindings(m) ==
    CASE m = VolumeAttachmentMethod ->
           {volumeAttachmentFindings(attachments, options.targetDriver, order) :
               order \in Perms(volumeHandleKeys(attachments, options.targetDriver))}
      [] m = CrossNodePVCMethod ->
           {CrossNodePVCDetect(pods, pvcs, FALSE, options.targetDriver,
                               crossNodeReads(pods, pvcs), o[1], o[2]).issues :
               o \in Perms(pvcKeys(pods)) \X validNodeOrders(pods)}
      [] m = EventsMethod ->
           {EventsDetect(events, FALSE, options.targetDriver, LookbackDuration, 1).issues}
      [] m = MetricsMethod -> {MetricsDetect}

\* C7: one DetectAll call invokes the detector of each selected method exactly once and
\* no unselected detector; the returned findings and summary.methodsUsed are those of
\* the set of selected methods, whatever the order of the list and however often an
\* entry is repeated: each selected detector contributes one of the finding sequences
\* it can deliver on the snapshot, once, and an unselected one contributes nothing;
\* methodsUsed lists each selected method once, metrics included.
C7_MethodsIsASet ==
    /\ \A m \in DetectionMethods :
         /\ Cardinality({i \in DOMAIN invoked : invoked[i] = m}) <= 1
         /\ m \notin Range(options.methods) => m \notin Range(invoked)
    /\ (pc = "done" /\ err.isNil) =>
         /\ ~result.isNil
         /\ invoked = SelectedInOrder
         /\ result.summary.methodsUsed = SelectedInOrder
         /\ \A f \in Range(result.issues) : f.detectedBy \in Range(options.methods)
         /\ NoReadCancelled =>
              \A m \in Range(options.methods) :
                  SelectSeq(result.issues, LAMBDA f : f.detectedBy = m)
                      \in {SelectSeq(F, Passes) : F \in PossibleFindings(m)}

\* Methods lists metrics before volumeattachments; both ran once and findings returned
C7_Witness ==
    /\ Returned
    /\ options.methods = <<MetricsMethod, VolumeAttachmentMethod>>
    /\ result.summary.methodsUsed = <<VolumeAttachmentMethod, MetricsMethod>>
    /\ result.issues # <<>>

\* Methods repeats an entry and findings were returned
C7_WitnessRepeated ==
    /\ Returned
    /\ options.methods = <<EventsMethod, EventsMethod>>
    /\ result.issues # <<>>

\* the recommendation list has the block named name
HasBlock(name) ==
    \E k \in DOMAIN result.recommendations : result.recommendations[k].block = name

\* some returned finding has type t
HasFinding(t) == \E i \in DOMAIN result.issues : result.issues[i].type = t

\* C16: with RecommendCleanup set, each block of the hint list appears if and only if
\* its trigger applies to the filtered findings: Immediate Actions, Long-term Solutions
\* and Safety Warnings iff at least one finding exists (the list is empty for zero
\* findings), the volume-attachment checks iff a volume-attachment-conflict or
\* multiple-attachments finding, the mount-reference checks iff a stuck-mount-reference
\* finding, the CSI log review iff a csi-operation-failure finding, the high-impact note
\* iff more than 10 distinct affected nodes; with RecommendCleanup unset there are no hints.
C16_BlocksAppearIffTriggered ==
    (pc = "done" /\ ~result.isNil) =>
        IF ~options.recommendCleanup THEN result.recommendations = <<>>
        ELSE /\ HasBlock("immediate-actions") <=> result.issues # <<>>
             /\ HasBlock("long-term-solutions") <=> result.issues # <<>>
             /\ HasBlock("safety-warnings") <=> result.issues # <<>>
             /\ result.issues = <<>> => result.recommendations = <<>>
             /\ HasBlock("check-volume-attachments")
                   <=> (HasFinding(VolumeAttachmentConflict) \/ HasFinding(MultipleAttachments))
             /\ HasBlock("check-mount-references") <=> HasFinding(StuckMountReference)
             /\ HasBlock("review-csi-driver-logs") <=> HasFinding(CSIOperationFailure)
             /\ HasBlock("high-impact")
                   <=> Cardinality({result.issues[i].node : i \in DOMAIN result.issues}
                                     \ {Empty}) > 10

\* the list of Text is strictly increasing in lexicographic order
StrictlySorted(list) == \A i \in 1..(Len(list) - 1) : TextLess(list[i], list[i + 1])

\* C17: in every DetectionResult summary.affectedNodes is the duplicate-free,
\* lexicographically sorted list of the non-empty node values of the returned findings,
\* and summary.affectedDrivers the same for the non-empty driver values; findings
\* removed by the severity filter contribute nothing.
C17_AffectedListsAreSortedSets ==
    (pc = "done" /\ ~result.isNil) =>
        /\ StrictlySorted(result.summary.affectedNodes)
        /\ Range(result.summary.affectedNodes)
              = {n \in {result.issues[i].node : i \in DOMAIN result.issues} : n # <<>>}
        /\ StrictlySorted(result.summary.affectedDrivers)
        /\ Range(result.summary.affectedDrivers)
              = {d \in {result.issues[i].driver : i \in DOMAIN result.issues} : d # <<>>}

\* a result with two affected nodes, a finding without a node, and a finding with a
\* node that the severity filter removed
C17_Witness ==
    /\ pc = "done" /\ ~result.isNil
    /\ Len(result.summary.affectedNodes) = 2
    /\ \E i \in DOMAIN result.issues : result.issues[i].node = <<>>
    /\ \E i \in DOMAIN allIssues :
          /\ allIssues[i].node # <<>>
          /\ \A k \in DOMAIN result.issues : result.issues[k] # allIssues[i]

-----------------------------------------------------------------------------
(* One detector at a time, on a wider range of cluster objects *)

\* the attachment records the first position of the list is drawn from
AttachmentPool ==
    {VolumeAttachment(Empty, attacher, Node1, source, attached, attachError, detachError, created) :
        attacher \in {TestDriver, OtherDriver},
        source \in {PVSource(<<"p","v","-","1">>), InlineCSISource(TestDriver, <<"v","o","l","-","2">>),
                    InlineNonCSISource, NoSource},
        attached \in BOOLEAN, attachError \in BOOLEAN, detachError \in BOOLEAN,
        created \in {Now - StuckThreshold, Now - StuckThreshold - 1}}

\* the attachment records the later positions of the list are drawn from
MoreAttachments ==
    {VolumeAttachment(Empty, TestDriver, Node2, source, attached, FALSE, FALSE, Now - 200) :
        source \in {PVSource(<<"p","v","-","1">>), InlineCSISource(TestDriver, <<"v","o","l","-","2">>)},
        attached \in BOOLEAN}

\* the lists of at most n records: one of pool first, then records of more
ListsOf(pool, more, n) ==
    {<<>>} \cup UNION {{<<first>> \o rest : first \in pool, rest \in [1..k -> more]} : k \in 0..(n - 1)}

\* a pod that mounts the same claim more often than the high-usage threshold
BusyPod == Pod(DefaultNamespace, Node1, [k \in 1..(HighUsageThreshold + 1) |-> PVCVolume(ClaimA)])

PodPool ==
    {Pod(DefaultNamespace, Node1, <<PVCVolume(ClaimA)>>),
     Pod(DefaultNamespace, Node2, <<OtherVolume, PVCVolume(ClaimA)>>),
     Pod(DefaultNamespace, Empty, <<PVCVolume(ClaimA)>>),
     BusyPod}

PVCInfoPool ==
    {BoundCSI(TestDriver), BoundCSI(OtherDriver), ViaStorageClass(TestDriver), PVCLookupFails,
     [BoundCSI(TestDriver) EXCEPT !.pvErr = TRUE],
     [ViaStorageClass(TestDriver) EXCEPT !.scErr = TRUE],
     [BoundCSI(Empty) EXCEPT !.pvHasCSI = FALSE]}

\* the events the first position of the list is drawn from
EventPool ==
    {Event(Empty, type, reason, message, lastTimestamp, eventTime, 1, "Pod", Empty) :
        type \in {WarningType, NormalType},
        reason \in {FailedAttachVolumeText, FailedMountText},
        message \in {MsgMultiAttach, MsgMountRefs, MsgOtherDriver, MsgPlain, MsgBothDrivers},
        lastTimestamp \in {0, Now - 2 * LookbackDuration, Now - LookbackDuration, Now - 10},
        eventTime \in {0, Now - 2 * LookbackDuration, Now - 10}}

\* the events the later positions of the list are drawn from
MoreEvents ==
    {Event(Empty, WarningType, FailedMountText, MsgMountRefs, lastTimestamp, 0, 7, "Pod", Node1) :
        lastTimestamp \in {Now - 2 * LookbackDuration, Now - 10}}

\* a Detector configured with the single method m, no severity filter, no recommendations
SingleMethod(m) ==
    /\ options \in [methods : {<<m>>}, targetDriver : {Empty, TestDriver},
                    minSeverity : {""}, recommendCleanup : {FALSE}]
    /\ ctxCancelled = FALSE
    /\ detectors = NewDetector(options.methods)
    /\ pc = VolumeAttachmentMethod
    /\ invoked = <<>>
    /\ readLog = <<>>
    /\ produced = [d \in DetectionMethods |-> <<>>]
    /\ allIssues = <<>>
    /\ methodsUsed = <<>>
    /\ result = NoResult
    /\ err = NoError
    /\ analysis = ZeroAnalysis
    /\ MinerIdle
    /\ WaitIdle
    /\ CleanupIdle

InitVolumeAttachments ==
    /\ SingleMethod(VolumeAttachmentMethod)
    /\ \E vas \in ListsOf(AttachmentPool, MoreAttachments, MaxAttachments) : attachments = Named(vas)
    /\ pods = <<>> /\ pvcs = <<>> /\ events = <<>>

InitCrossNodePVC ==
    /\ SingleMethod(CrossNodePVCMethod)
    /\ pods \in SeqsUpTo(PodPool, MaxPods)
    /\ pvcs \in [{pvcKeyOf(DefaultNamespace, ClaimA)} -> PVCInfoPool]
    /\ attachments = <<>> /\ events = <<>>

InitEvents ==
    /\ SingleMethod(EventsMethod)
    /\ \E es \in ListsOf(EventPool, MoreEvents, MaxEvents) : events = NamedEvents(es)
    /\ attachments = <<>> /\ pods = <<>> /\ pvcs = <<>>

InitMetrics ==
    /\ SingleMethod(MetricsMethod)
    /\ attachments = <<>> /\ pods = <<>> /\ pvcs = <<>> /\ events = <<>>

InitDetectors == InitVolumeAttachments \/ InitCrossNodePVC \/ InitEvents \/ InitMetrics

SpecDetectors == InitDetectors /\ [][Next]_vars

-----------------------------------------------------------------------------
(* Properties of the detectors *)

\* detector m has run and delivered its findings
Delivered(m) == m \in Range(methodsUsed)

\* the findings of type t that detector m made from the object named name
FindingsFrom(m, t, name) ==
    {i \in DOMAIN produced[m] : produced[m][i].type = t /\ produced[m][i].ref = name}

\* C8: for an attachment that passes the driver filter the volume-attachment detector
\* emits a stuck-volume-attachment finding if and only if the attachment is not
\* attached, has no attach error and is more than 30 minutes old; an attachment that
\* does not pass the driver filter yields none.
C8_StuckIffUnattachedNoErrorOlderThan30 ==
    Delivered(VolumeAttachmentMethod) =>
        \A i \in DOMAIN attachments :
            LET va == attachments[i]
                stuck == FindingsFrom(VolumeAttachmentMethod, StuckVolumeAttachment, va.name)
                passes == options.targetDriver = Empty \/ va.attacher = options.targetDriver
            IN  /\ Cardinality(stuck) <= 1
                /\ stuck # {} <=>
                     (passes /\ ~va.attached /\ ~va.attachError /\ Now - va.created > 30)

\* a run with a stuck finding for an attachment of 31 minutes, and one with an attach
\* error that has none
C8_Witness ==
    /\ Delivered(VolumeAttachmentMethod)
    /\ \E i \in DOMAIN attachments :
         /\ Now - attachments[i].created = 31
         /\ FindingsFrom(VolumeAttachmentMethod, StuckVolumeAttachment, attachments[i].name) # {}

\* an attachment of exactly 30 minutes, unattached and without error, has no stuck finding
C8_WitnessAtThreshold ==
    /\ Delivered(VolumeAttachmentMethod)
    /\ \E i \in DOMAIN attachments :
         /\ Now - attachments[i].created = 30
         /\ ~attachments[i].attached /\ ~attachments[i].attachError
         /\ options.targetDriver = Empty
         /\ FindingsFrom(VolumeAttachmentMethod, StuckVolumeAttachment, attachments[i].name) = {}

\* the effective time of an event: lastTimestamp, or eventTime when lastTimestamp is zero
EffectiveTime(event) == IF event.lastTimestamp # 0 THEN event.lastTimestamp ELSE event.eventTime

\* C9: every finding of the events detector comes from an event whose effective time
\* (lastTimestamp, or eventTime when lastTimestamp is zero) is >= now - lookback.
C9_FindingsOnlyFromRecentEvents ==
    \A f \in Range(produced[EventsMethod]) :
        \A i \in DOMAIN events :
            events[i].name = f.ref => EffectiveTime(events[i]) >= Now - 60

\* the finding types that must name a volume or a PVC
TypesNamingAVolume ==
    {StuckVolumeAttachment, StuckVolumeDetachment, FailedAttachVolume, StuckMountReference}

\* C10: every finding of every detector has a type and a severity set; every finding of
\* type stuck-volume-attachment, stuck-volume-detachment, failed-attach-volume or
\* stuck-mount-reference has a non-empty volume or a non-empty pvc; the volume handle
\* of a volume-attachment finding is never empty: it is the PV name, the inline CSI
\* handle, or the literal "unknown" when the source names neither.
C10_FindingsAreWellFormed ==
    /\ \A m \in DetectionMethods : \A f \in Range(produced[m]) :
         /\ f.type \in IssueTypes
         /\ f.severity \in Severities
         /\ f.type \in TypesNamingAVolume => (f.volume # <<>> \/ f.pvc # <<>>)
    /\ \A f \in Range(produced[VolumeAttachmentMethod]) :
         /\ f.volume # <<>>
         /\ \A i \in DOMAIN attachments :
              (attachments[i].name = f.ref /\ ~attachments[i].source.hasPV
                 /\ ~attachments[i].source.hasCSI) => f.volume = <<"u", "n", "k", "n", "o", "w", "n">>

\* a stuck attachment whose source names neither a PV nor a CSI volume: handle "unknown"
C10_Witness ==
    \E f \in Range(produced[VolumeAttachmentMethod]) :
        /\ f.type = StuckVolumeAttachment
        /\ f.volume = <<"u", "n", "k", "n", "o", "w", "n">>

\* a stuck-mount-reference finding of the cross-node PVC detector, named by its PVC
C10_WitnessMountReference ==
    \E f \in Range(produced[CrossNodePVCMethod]) :
        f.type = StuckMountReference /\ f.volume = <<>> /\ f.pvc # <<>>

\* C13: when a TargetDriver T is configured, every finding a detector returns has a
\* driver that is T (or contains T), is empty, or is "unknown"; this includes the
\* findings of the events detector for a message that mentions both T and one of the
\* six known drivers.
C13_FindingsCarryTheTargetDriver ==
    (pc = "done" /\ err.isNil /\ options.targetDriver # Empty) =>
        \A i \in DOMAIN result.issues :
            \/ result.issues[i].driver \in {Empty, Unknown}
            \/ Contains(result.issues[i].driver, options.targetDriver)

\* the outcome of the call named call, when it was made
OutcomeOf(call) ==
    IF \E i \in DOMAIN readLog : readLog[i].call = call
    THEN readLog[CHOOSE i \in DOMAIN readLog : readLog[i].call = call].outcome
    ELSE "not called"

\* the calls of getPVCDriver
LookupCalls == {"getPVC", "getPV", "getStorageClass"}

\* every driver lookup the detector made has succeeded
LookupsSucceeded ==
    \A i \in DOMAIN readLog : readLog[i].call \in LookupCalls => readLog[i].outcome = ReadOk

\* the driver the cluster records for the PVC key: the CSI driver of its bound PV, else
\* the provisioner of its storage class, else none
RecordedDriver(key) ==
    IF pvcs[key].volumeName # Empty /\ pvcs[key].pvHasCSI THEN pvcs[key].pvDriver
    ELSE IF pvcs[key].hasStorageClass THEN pvcs[key].provisioner
    ELSE Empty

\* the driver the detector determined for the PVC key; Empty when it determined none
DeterminedDriver(key) == IF LookupsSucceeded THEN RecordedDriver(key) ELSE Empty

\* the scheduled pods' references to the PVC key, as pairs of pod index and volume index
ReferencesTo(key) ==
    {<<i, j>> \in (DOMAIN pods) \X (1..(HighUsageThreshold + 2)) :
        /\ pods[i].node # Empty
        /\ j \in DOMAIN pods[i].volumes
        /\ pods[i].volumes[j].hasPVC
        /\ pvcKeyOf(pods[i].namespace, pods[i].volumes[j].claimName) = key}

\* the nodes the PVC key is used on
NodesUsing(key) == {pods[r[1]].node : r \in ReferencesTo(key)}

\* the findings of the cross-node detector for the PVC key
FindingsFor(key) ==
    {i \in DOMAIN produced[CrossNodePVCMethod] : produced[CrossNodePVCMethod][i].pvc = key}

\* the usage of the PVC key calls for a finding
UsageCallsForFinding(key) ==
    \/ Cardinality(NodesUsing(key)) > 1
    \/ Cardinality(ReferencesTo(key)) > HighUsageThreshold

\* the PVC keys of the cluster
UsedKeys == {k \in DOMAIN pvcs : ReferencesTo(k) # {}}

\* C14 as stated: with a TargetDriver set, the cross-node PVC detector yields a finding
\* for a PVC only if the driver it determined for the PVC contains the target; a PVC
\* whose driver could not be determined is skipped.
C14_UndeterminedDriverIsSkipped ==
    (Delivered(CrossNodePVCMethod) /\ options.targetDriver # Empty) =>
        \A key \in UsedKeys :
            FindingsFor(key) # {} =>
                /\ DeterminedDriver(key) # Empty
                /\ Contains(DeterminedDriver(key), options.targetDriver)

\* C14: with a TargetDriver set, a PVC whose driver was determined yields a finding only
\* if that driver contains the target; a PVC whose driver could not be determined is
\* not skipped by the driver filter: it yields the finding its usage calls for whether
\* or not a TargetDriver is set.
C14_OnlyDeterminedDriversAreFiltered ==
    Delivered(CrossNodePVCMethod) =>
        \A key \in UsedKeys :
            /\ (options.targetDriver # Empty /\ DeterminedDriver(key) # Empty
                    /\ FindingsFor(key) # {})
                  => Contains(DeterminedDriver(key), options.targetDriver)
            /\ DeterminedDriver(key) = Empty
                  => (FindingsFor(key) # {} <=> UsageCallsForFinding(key))

\* a target driver is set, no driver was determined, and the PVC has its finding
C14_Witness ==
    /\ Delivered(CrossNodePVCMethod)
    /\ options.targetDriver # Empty
    /\ \E key \in UsedKeys : DeterminedDriver(key) = Empty /\ FindingsFor(key) # {}

\* C15: in the cross-node PVC detector a failed PVC, PV or StorageClass lookup never
\* makes Detect return an error and never suppresses the finding: a PVC used on two or
\* more nodes whose lookup failed yields exactly one multiple-attachments finding, with
\* an empty driver, also when a target driver is configured.
C15_FailedLookupKeepsTheFinding ==
    (pc = "done" /\ CrossNodePVCMethod \in Range(invoked)
        /\ OutcomeOf("listPods") = ReadOk /\ ~LookupsSucceeded) =>
        /\ err.isNil
        /\ \A key \in UsedKeys :
              /\ Cardinality(NodesUsing(key)) > 1 =>
                    /\ Cardinality(FindingsFor(key)) = 1
                    /\ \A i \in FindingsFor(key) :
                          /\ produced[CrossNodePVCMethod][i].type = MultipleAttachments
                          /\ produced[CrossNodePVCMethod][i].driver = Empty
              /\ UsageCallsForFinding(key) => FindingsFor(key) # {}

\* a lookup failed under a target driver, and the PVC on two nodes has its finding
C15_Witness ==
    /\ pc = "done"
    /\ options.targetDriver # Empty
    /\ ~LookupsSucceeded
    /\ err.isNil
    /\ \E key \in UsedKeys :
          /\ Cardinality(NodesUsing(key)) > 1
          /\ \E i \in FindingsFor(key) : produced[CrossNodePVCMethod][i].driver = Empty

-----------------------------------------------------------------------------
(* The volume-attachment detector on groups of attachments of one volume *)

MaxGroup == 5

\* the record a list of the group runs starts with
FirstOfGroup ==
    {VolumeAttachment(Empty, TestDriver, Empty, PVSource(<<"p","v","-","1">>), TRUE, FALSE, FALSE, Now - 10),
     VolumeAttachment(Empty, TestDriver, Empty, PVSource(<<"p","v","-","1">>), TRUE, TRUE, TRUE, Now - 10),
     VolumeAttachment(Empty, TestDriver, Empty, PVSource(<<"p","v","-","1">>), TRUE, FALSE, TRUE, Now - 10),
     VolumeAttachment(Empty, TestDriver, Empty, PVSource(<<"p","v","-","1">>), FALSE, TRUE, FALSE, Now - 10),
     VolumeAttachment(Empty, TestDriver, Empty, PVSource(<<"p","v","-","1">>), FALSE, FALSE, FALSE, Now - 10),
     VolumeAttachment(Empty, OtherDriver, Empty, PVSource(<<"p","v","-","1">>), TRUE, FALSE, TRUE, Now - 10),
     VolumeAttachment(Empty, TestDriver, Empty, PVSource(<<"p","v","-","2">>), TRUE, FALSE, FALSE, Now - 10)}

\* the records that follow it
RestOfGroup ==
    {VolumeAttachment(Empty, TestDriver, Empty, PVSource(<<"p","v","-","1">>), TRUE, FALSE, FALSE, Now - 10),
     VolumeAttachment(Empty, TestDriver, Empty, PVSource(<<"p","v","-","2">>), TRUE, TRUE, FALSE, Now - 10),
     VolumeAttachment(Empty, OtherDriver, Empty, PVSource(<<"p","v","-","1">>), TRUE, FALSE, FALSE, Now - 10)}

\* every record of a list is attached to a node of its own: node-i at position i
NodeName(i) == <<"n","o","d","e","-">> \o Itoa(i)
OnNodes(vas) == [i \in DOMAIN vas |-> [vas[i] EXCEPT !.node = NodeName(i)]]

InitAttachmentGroups ==
    /\ SingleMethod(VolumeAttachmentMethod)
    /\ \E vas \in ListsOf(FirstOfGroup, RestOfGroup, MaxGroup) : attachments = OnNodes(Named(vas))
    /\ pods = <<>> /\ pvcs = <<>> /\ events = <<>>

NextAttachments == RunVolumeAttachmentDetection \/ SkipDetector \/ Finish

SpecAttachmentGroups == InitAttachmentGroups /\ [][NextAttachments]_vars

\* the positions of the attachments that pass the driver filter
FilteredAttachments ==
    {i \in DOMAIN attachments :
        options.targetDriver = Empty \/ attachments[i].attacher = options.targetDriver}

\* the filtered attachments of volume handle h that are currently attached
AttachedOn(h) ==
    {i \in FilteredAttachments :
        getVolumeHandle(attachments[i].source) = h /\ attachments[i].attached}

\* the findings the volume-attachment detector delivered
VAFindings == produced[VolumeAttachmentMethod]

\* the attach / detach error findings made from attachment i
ErrorFindings(i) ==
    {k \in DOMAIN VAFindings :
        /\ VAFindings[k].ref = attachments[i].name
        /\ VAFindings[k].type \in {StuckVolumeDetachment, FailedAttachVolume}}

\* the multiple-attachments findings for volume handle h
MultiAttachFindings(h) ==
    {k \in DOMAIN VAFindings :
        VAFindings[k].type = MultipleAttachments /\ VAFindings[k].volume = h}

\* the severity that goes with a number of attached records
SeverityOfAttached(n) ==
    IF n >= 5 THEN "critical" ELSE IF n >= 3 THEN "high" ELSE IF n = 2 THEN "medium" ELSE "low"

\* C22: the severity of a volume-attachment error finding (stuck-volume-detachment or
\* failed-attach-volume) is determined by the number of currently-attached records
\* that share the volume handle in the whole driver-filtered list: 5 or more critical,
\* 3 or more high, exactly 2 medium, else low; it does not depend on the position of
\* the errored attachment in the list.
C22_ErrorSeverityCountsTheWholeList ==
    Delivered(VolumeAttachmentMethod) =>
        \A i \in FilteredAttachments : \A k \in ErrorFindings(i) :
            VAFindings[k].severity =
                SeverityOfAttached(Cardinality(AttachedOn(getVolumeHandle(attachments[i].source))))

C24_OneErrorFindingPerAttachment ==
    Delivered(VolumeAttachmentMethod) =>
        \A i \in DOMAIN attachments :
            LET va == attachments[i]
                types == {VAFindings[k].type : k \in ErrorFindings(i)}
            IN  IF i \in FilteredAttachments
                THEN /\ Cardinality(ErrorFindings(i)) <= 1
                     /\ types = IF va.detachError THEN {StuckVolumeDetachment}
                                ELSE IF va.attachError THEN {FailedAttachVolume}
                                ELSE {}
                ELSE /\ \A k \in DOMAIN VAFindings :
                           /\ VAFindings[k].ref # va.name
                           /\ va.node \notin Range(VAFindings[k].nodes)
                           /\ VAFindings[k].type = MultipleAttachments =>
                                 Len(VAFindings[k].nodes) = Cardinality(AttachedOn(VAFindings[k].volume))

\* an attachment with both errors is reported once, and an attachment of another driver
\* stays out of the multiple-attachments finding of its volume
C24_Witness ==
    /\ \E i \in FilteredAttachments :
          /\ attachments[i].attachError /\ attachments[i].detachError
          /\ Cardinality(ErrorFindings(i)) = 1
    /\ \E i \in DOMAIN attachments \ FilteredAttachments :
          /\ attachments[i].attached
          /\ MultiAttachFindings(getVolumeHandle(attachments[i].source)) # {}

\* the driver an attachment names: the inline CSI driver, else the attacher, else the
\* target driver, else none
DriverNamedBy(va) ==
    IF va.source.hasInline /\ va.source.hasCSI THEN va.source.csiDriver
    ELSE IF va.attacher # Empty THEN va.attacher
    ELSE options.targetDriver

\* C25: the driver recorded on a volume-attachment finding is the inline CSI driver of
\* the attachment source when one is present, otherwise the attacher field, otherwise
\* the TargetDriver when set, otherwise empty; when the inline CSI driver and the
\* attacher differ the finding carries the inline CSI driver.
C25_FindingCarriesTheInlineDriver ==
    Delivered(VolumeAttachmentMethod) =>
        \A i \in DOMAIN attachments : \A k \in DOMAIN VAFindings :
            VAFindings[k].ref = attachments[i].name =>
                VAFindings[k].driver = DriverNamedBy(attachments[i])

-----------------------------------------------------------------------------
(* The cross-node PVC detector around the high-usage threshold *)

\* a pod on the node with n volumes of the claim
PodWith(node, n) == Pod(DefaultNamespace, node, [k \in 1..n |-> PVCVolume(ClaimA)])

UsagePodPool ==
    {PodWith(Node1, HighUsageThreshold - 1), PodWith(Node1, 1), PodWith(Node1, 2),
     PodWith(Node2, 1), PodWith(Empty, HighUsageThreshold + 1)}

InitPVCUsage ==
    /\ SingleMethod(CrossNodePVCMethod)
    /\ pods \in SeqsUpTo(UsagePodPool, MaxPods)
    /\ pvcs \in [{pvcKeyOf(DefaultNamespace, ClaimA)} -> PVCInfoPool]
    /\ attachments = <<>> /\ events = <<>>

NextPVCUsage == SkipDetector \/ RunCrossNodePVCDetection \/ Finish

SpecPVCUsage == InitPVCUsage /\ [][NextPVCUsage]_vars

\* the driver filter lets the PVC key through: no target driver, no driver determined
\* for the PVC, or a determined driver that contains the target
LetThrough(key) ==
    \/ options.targetDriver = Empty
    \/ DeterminedDriver(key) = Empty
    \/ Contains(DeterminedDriver(key), options.targetDriver)

-----------------------------------------------------------------------------
(* The rules of the events detector, one recent event at a time *)

MsgTargetDriver == <<"t","e","s","t",".","c","s","i",".","d","r","i","v","e","r",":"," ","a","t","t","a","c","h"," ","t","i","m","e","d"," ","o","u","t">>
MsgGenericDriver == <<"d","r","i","v","e","r"," ","n","f","s",".","c","s","i",".","k","8","s",".","i","o"," ","i","s"," ","n","o","t"," ","r","e","g","i","s","t","e","r","e","d">>
MsgCSI == <<"C","S","I"," ","n","o","d","e"," ","p","l","u","g","i","n"," ","n","o","t"," ","r","e","a","d","y">>
MsgTokenVolume == <<"M","o","u","n","t","V","o","l","u","m","e",".","S","e","t","U","p"," ","f","a","i","l","e","d"," ","f","o","r"," ","v","o","l","u","m","e"," ","k","u","b","e","-","a","p","i","-","a","c","c","e","s","s","-","x","7","k","2","p"," ",":"," ","s","e","c","r","e","t"," ","n","o","t"," ","f","o","u","n","d">>
MsgCSISecret == <<"C","S","I"," ","s","e","c","r","e","t"," ","n","o","t"," ","f","o","u","n","d"," ","f","o","r"," ","t","h","e"," ","v","o","l","u","m","e">>
MsgStorageClass == <<"S","t","o","r","a","g","e","C","l","a","s","s"," ","f","a","s","t"," ","h","a","s"," ","n","o"," ","v","o","l","u","m","e"," ","p","l","u","g","i","n">>
MsgConfigMap == <<"c","o","n","f","i","g","m","a","p"," ","s","e","t","t","i","n","g","s"," ","n","o","t"," ","f","o","u","n","d">>

ProvisioningFailedText == <<"P","r","o","v","i","s","i","o","n","i","n","g","F","a","i","l","e","d">>
FailedText == <<"F","a","i","l","e","d">>

\* the events of the rule tables: every type, reason, message and repetition count
RuleEventPool ==
    {Event(Empty, type, reason, message, Now - 10, 0, count, "Pod", Empty) :
        type \in {WarningType, NormalType},
        reason \in {FailedAttachVolumeText, FailedMountText, ProvisioningFailedText, FailedText},
        message \in {MsgMultiAttach, MsgMountRefs, MsgOtherDriver, MsgPlain, MsgBothDrivers,
                     MsgTargetDriver, MsgGenericDriver, MsgCSI, MsgTokenVolume, MsgCSISecret,
                     MsgStorageClass, MsgConfigMap},
        count \in {2, 3, 6, 7, 9, 10}}

\* an events detector and a cluster with one recent event
InitEventRules ==
    /\ SingleMethod(EventsMethod)
    /\ \E e \in RuleEventPool : events = NamedEvents(<<e>>)
    /\ attachments = <<>> /\ pods = <<>> /\ pvcs = <<>>

NextEvents == SkipDetector \/ RunEventsDetection \/ Finish

SpecEventRules == InitEventRules /\ [][NextEvents]_vars

\* the findings the events detector made from event e
EventFindings(e) == {i \in DOMAIN produced[EventsMethod] : produced[EventsMethod][i].ref = e.name}

\* the severity the repetition count alone gives
SeverityByCount(count) ==
    IF count >= 10 THEN SeverityCritical
    ELSE IF count >= 7 THEN SeverityHigh
    ELSE IF count >= 3 THEN SeverityMedium
    ELSE SeverityLow

\* C21: a finding of the events detector whose event message contains "Multi-Attach
\* error" or "GetDeviceMountRefs" has severity high whatever the repetition count, so
\* every multi-attach-error finding and every stuck-mount-reference finding of the
\* detector is high; for any other message the severity is critical for count >= 10,
\* high for 7..9, medium for 3..6 and low below 3.
C21_EventSeverity ==
    \A i \in DOMAIN events : \A k \in EventFindings(events[i]) :
        LET e == events[i]
            f == produced[EventsMethod][k]
        IN  /\ (Contains(e.message, <<"M","u","l","t","i","-","A","t","t","a","c","h"," ","e","r","r","o","r">>) \/ Contains(e.message, <<"G","e","t","D","e","v","i","c","e","M","o","u","n","t","R","e","f","s">>))
                  => f.severity = SeverityHigh
            /\ f.type \in {MultiAttachError, StuckMountReference} => f.severity = SeverityHigh
            /\ ~(Contains(e.message, <<"M","u","l","t","i","-","A","t","t","a","c","h"," ","e","r","r","o","r">>) \/ Contains(e.message, <<"G","e","t","D","e","v","i","c","e","M","o","u","n","t","R","e","f","s">>))
                  => f.severity = SeverityByCount(e.count)

\* a multi-attach error repeated ten times is reported as high
C21_Witness ==
    \E i \in DOMAIN events : \E k \in EventFindings(events[i]) :
        /\ events[i].count >= 10
        /\ produced[EventsMethod][k].type = MultiAttachError
        /\ produced[EventsMethod][k].severity = SeverityHigh

\* the message of e contains the text
Mentions(e, text) == Contains(e.message, text)

\* the acceptance rules of the generic CSI-relatedness test
AcceptedAsCSIRelated(e) ==
    \/ Mentions(e, <<"C","S","I">>) \/ Contains(e.reason, <<"C","S","I">>)
    \/ \E marker \in {<<".","c","s","i",".">>, <<"c","s","i",".","o","p","e","n","s","t","a","c","k",".","o","r","g">>, <<"c","s","i",".","c","e","p","h",".","c","o","m">>, <<"c","s","i",".","a","w","s",".","c","o","m">>,
                       <<"c","s","i",".","a","z","u","r","e",".","c","o","m">>, <<"c","s","i",".","s","t","o","r","a","g","e",".","g","k","e",".","i","o">>} : Mentions(e, marker)
    \/ e.reason \in {<<"V","o","l","u","m","e","B","i","n","d","i","n","g","F","a","i","l","e","d">>, <<"P","r","o","v","i","s","i","o","n","i","n","g","F","a","i","l","e","d">>, <<"V","o","l","u","m","e","F","a","i","l","e","d","M","o","u","n","t">>,
                     <<"V","o","l","u","m","e","F","a","i","l","e","d","U","n","m","o","u","n","t">>, <<"V","o","l","u","m","e","R","e","s","i","z","e","F","a","i","l","e","d">>, <<"V","o","l","u","m","e","R","e","s","i","z","i","n","g">>}
    \/ /\ Mentions(e, <<"S","t","o","r","a","g","e","C","l","a","s","s">>) \/ Mentions(e, <<"s","t","o","r","a","g","e","c","l","a","s","s">>)
       /\ Mentions(e, <<"P","e","r","s","i","s","t","e","n","t","V","o","l","u","m","e">>) \/ Mentions(e, <<"v","o","l","u","m","e">>)

\* the type the classification rules give event e, first match first; "none": dropped
ExpectedType(e) ==
    IF Mentions(e, <<"M","u","l","t","i","-","A","t","t","a","c","h"," ","e","r","r","o","r">>) THEN MultiAttachError
    ELSE IF e.reason = <<"F","a","i","l","e","d","A","t","t","a","c","h","V","o","l","u","m","e">> /\ e.type = "Warning" THEN FailedAttachVolume
    ELSE IF e.reason = <<"F","a","i","l","e","d","M","o","u","n","t">> /\ e.type = "Warning"
         THEN IF Mentions(e, <<"G","e","t","D","e","v","i","c","e","M","o","u","n","t","R","e","f","s">>) THEN StuckMountReference
              ELSE CSIOperationFailure
    ELSE IF e.type = "Warning" /\ AcceptedAsCSIRelated(e) THEN CSIOperationFailure
    ELSE "none"

\* the message or the reason of e names an important volume event or CSI
NamesImportantEvent(e) ==
    \/ \E token \in {<<"M","u","l","t","i","-","A","t","t","a","c","h"," ","e","r","r","o","r">>, <<"G","e","t","D","e","v","i","c","e","M","o","u","n","t","R","e","f","s">>, <<"F","a","i","l","e","d","A","t","t","a","c","h","V","o","l","u","m","e">>,
                      <<"F","a","i","l","e","d","M","o","u","n","t">>} : Mentions(e, token) \/ e.reason = token
    \/ Mentions(e, <<"C","S","I">>) \/ Contains(e.reason, <<"C","S","I">>)

\* the driver-scoping filter for target driver T accepts event e
AcceptedByScoping(e, T) ==
    \/ Mentions(e, T)
    \/ /\ ~\E k \in Range(knownDrivers) \ {T} : Mentions(e, k)
       /\ ~Mentions(e, <<".","c","s","i",".">>)
       /\ NamesImportantEvent(e)

\* C27: each recent event that passes the driver filter yields at most one finding,
\* typed by the first matching rule: message contains "Multi-Attach error" ->
\* multi-attach-error whatever the type and reason; reason FailedAttachVolume and type
\* Warning -> failed-attach-volume; reason FailedMount and type Warning ->
\* stuck-mount-reference if the message contains "GetDeviceMountRefs", else
\* csi-operation-failure; type Warning and CSI-related -> csi-operation-failure;
\* otherwise the event is dropped, so that an event that is not a Warning and has no
\* "Multi-Attach error" never yields a finding.
C27_FirstMatchingRuleTypesTheFinding ==
    Delivered(EventsMethod) =>
        \A i \in DOMAIN events :
            LET e == events[i]
                passes == options.targetDriver = Empty \/ AcceptedByScoping(e, options.targetDriver)
            IN  /\ Cardinality(EventFindings(e)) <= 1
                /\ (passes /\ ExpectedType(e) = "none") => EventFindings(e) = {}
                /\ (passes /\ ExpectedType(e) # "none") =>
                      \E k \in EventFindings(e) : produced[EventsMethod][k].type = ExpectedType(e)
                /\ (e.type # "Warning" /\ ~Mentions(e, <<"M","u","l","t","i","-","A","t","t","a","c","h"," ","e","r","r","o","r">>)) => EventFindings(e) = {}

\* a Warning that only the fourth rule matches is reported as a CSI operation failure
C27_Witness ==
    \E i \in DOMAIN events : \E k \in EventFindings(events[i]) :
        /\ events[i].type = "Warning"
        /\ events[i].reason = <<"P","r","o","v","i","s","i","o","n","i","n","g","F","a","i","l","e","d">>
        /\ ~Mentions(events[i], <<"M","u","l","t","i","-","A","t","t","a","c","h"," ","e","r","r","o","r">>)
        /\ produced[EventsMethod][k].type = CSIOperationFailure

ExcludedAsNonCSI(e) ==
    \E pattern \in {<<"k","u","b","e","-","a","p","i","-","a","c","c","e","s","s","-">>, <<"d","e","f","a","u","l","t","-","t","o","k","e","n","-">>, <<"c","o","n","f","i","g","m","a","p">>, <<"s","e","c","r","e","t">>,
                     <<"s","e","r","v","i","c","e","a","c","c","o","u","n","t">>} : Mentions(e, pattern)

\* C29: in the generic CSI-relatedness test the exclusions are checked before the
\* acceptance rules: a Warning event that no earlier classification rule matches and
\* whose message contains "kube-api-access-", "default-token-", "configmap", "secret" or
\* "serviceaccount" is never classified as csi-operation-failure, even when its message
\* or reason also contains "CSI", a driver-shape marker, a listed volume reason, or a
\* storage-class token together with a volume token.
C29_ExclusionsComeFirst ==
    \A i \in DOMAIN events :
        LET e == events[i]
        IN  (/\ e.type = "Warning"
             /\ ~Mentions(e, <<"M","u","l","t","i","-","A","t","t","a","c","h"," ","e","r","r","o","r">>)
             /\ e.reason \notin {<<"F","a","i","l","e","d","A","t","t","a","c","h","V","o","l","u","m","e">>, <<"F","a","i","l","e","d","M","o","u","n","t">>}
             /\ ExcludedAsNonCSI(e))
            => \A k \in EventFindings(e) : produced[EventsMethod][k].type # CSIOperationFailure

-----------------------------------------------------------------------------
(* GetDetailedAnalysis: pkg/detect/detector.go *)

\* the maxResults GetDetailedAnalysis passes to GetRecentEvents
RecentEventsLimit == 50

\* types.NodePVCUsage for one node: the references of the scheduled pods on it, per PVC key
nodePVCUsageOf(podList, node) ==
    LET refs == SelectSeq(podRefs(podList), LAMBDA r : r.node = node)
        keys == {refs[i].pvcKey : i \in DOMAIN refs}
    IN  [node |-> node,
         pvcCounts |-> [k \in keys |-> Cardinality({i \in DOMAIN refs : refs[i].pvcKey = k})],
         total |-> Len(refs)]

\* the key set of the map nodeUsage of GetNodePVCUsage: the nodes with a scheduled pod
usageNodes(podList) == {podList[i].node : i \in DOMAIN podList} \ {Empty}

\* CrossNodePVCDetector.GetNodePVCUsage; nodeOrder is the order in which the map nodeUsage
\* is ranged over
GetNodePVCUsage(podList, podsFail, cancelAt, nodeOrder) ==
    LET listPods == Read("listPods", podsFail, <<>>, cancelAt)
    IN  IF listPods.outcome # ReadOk
        THEN [usage |-> <<>>, failed |-> TRUE, log |-> <<listPods>>]
        ELSE [usage |-> [k \in DOMAIN nodeOrder |-> nodePVCUsageOf(podList, nodeOrder[k])],
              failed |-> FALSE,
              log |-> <<listPods>>]

\* isVolumeRelatedEvent
isVolumeRelatedEvent(event) ==
    LET volumeKeywords == <<<<"V","o","l","u","m","e">>, <<"M","o","u","n","t">>, <<"A","t","t","a","c","h">>, <<"P","V","C">>, <<"P","V">>, <<"C","S","I">>,
                            <<"v","o","l","u","m","e">>, <<"m","o","u","n","t">>, <<"a","t","t","a","c","h">>, <<"p","v","c">>, <<"p","v">>, <<"c","s","i">>>>
    IN  \E k \in DOMAIN volumeKeywords :
            Contains(event.reason, volumeKeywords[k]) \/ Contains(event.message, volumeKeywords[k])

\* types.EventInfo as GetRecentEvents fills it
eventInfo(event) ==
    [type |-> event.type, reason |-> event.reason,
     message |-> event.message, object |-> <<event.involvedKind, event.involvedName>>,
     namespace |-> event.namespace,
     time |-> IF event.lastTimestamp = 0 THEN event.eventTime ELSE event.lastTimestamp]

\* the loop of GetRecentEvents over eventList[1..i]; it breaks once maxResults are collected
RECURSIVE relevantEvents(_, _, _, _, _)
relevantEvents(eventList, targetDriver, lookback, maxResults, i) ==
    IF i = 0 THEN <<>>
    ELSE LET before == relevantEvents(eventList, targetDriver, lookback, maxResults, i - 1)
             event == eventList[i]
             info == eventInfo(event)
         IN  IF before # <<>> /\ Len(before) >= maxResults THEN before
             ELSE IF info.time < Now - lookback THEN before
             ELSE IF eventMatchesDriver(event, targetDriver) \/ isVolumeRelatedEvent(event)
                  THEN Append(before, info)
             ELSE before

\* GetRecentEvents reporting the events it holds although the list call failed
GetRecentEvents_keepsOnError(eventList, listFails, targetDriver, lookback, maxResults, cancelAt) ==
    [events |-> relevantEvents(eventList, targetDriver, lookback, maxResults, Len(eventList)),
     failed |-> FALSE,
     log |-> <<Read("listEvents", listFails, <<>>, cancelAt)>>]

\* EventsDetector.GetRecentEvents
GetRecentEvents(eventList, listFails, targetDriver, lookback, maxResults, cancelAt) ==
    LET listEvents == Read("listEvents", listFails, <<>>, cancelAt)
    IN  IF listEvents.outcome # ReadOk
        THEN [events |-> <<>>, failed |-> TRUE, log |-> <<listEvents>>]
        ELSE [events |-> relevantEvents(eventList, targetDriver, lookback, maxResults,
                                        Len(eventList)),
              failed |-> FALSE,
              log |-> <<listEvents>>]

\* MetricsDetector.GetMetricQueries: the names of the queries of the catalogue, with the
\* driver-specific query when a target driver is configured
GetMetricQueries(targetDriver) ==
    <<"CSI Attach Failures", "CSI Mount Failures", "CSI Operation Timeouts",
      "Storage Operation Failures", "Volume Attachment Conflicts", "High Operation Duration",
      "CSI Node Operations", "Failed Mount Events", "Failed Attach Events">>
    \o (IF targetDriver # Empty THEN <<"driver_specific_errors">> ELSE <<>>)

\* MetricsDetector.GetRecommendedAlerts: the names of the alerts
GetRecommendedAlerts ==
    <<"CSIOperationFailures", "StorageOperationFailures", "StuckVolumeAttachments",
      "LongRunningCSIOperations", "MultiAttachErrors">>

\* the position of the section of GetDetailedAnalysis for method m
AnalysisPosition(m) ==
    CASE m = VolumeAttachmentMethod -> "analysis-volumeattachments"
      [] m = CrossNodePVCMethod -> "analysis-cross-node-pvc"
      [] m = EventsMethod -> "analysis-events"
      [] m = MetricsMethod -> "analysis-metrics"

\* what a section of GetDetailedAnalysis leaves alone, and the calls it has made
Analysed(log) ==
    /\ readLog' = readLog \o log
    /\ ctxCancelled' = (ctxCancelled \/ \E i \in DOMAIN log : log[i].outcome = ReadCancelled)
    /\ UNCHANGED <<options, attachments, pods, pvcs, events, detectors, invoked, produced,
                   allIssues, methodsUsed, result, err>>
    /\ UNCHANGED <<minerVars, waitVars, cleanupVars>>

\* GetDetailedAnalysis: "Get VolumeAttachment details if available"
AnalyseVolumeAttachments ==
    /\ pc = AnalysisPosition(VolumeAttachmentMethod)
    /\ pc' = AnalysisPosition(CrossNodePVCMethod)
    /\ IF VolumeAttachmentMethod \notin detectors
       THEN Analysed(<<>>) /\ UNCHANGED analysis
       ELSE \E cancelAt \in CancelPoints(1), listFails \in BOOLEAN :
              LET listAttachments == Read("listAttachments", listFails, <<>>, cancelAt)
                  vas == attachments
              IN  /\ Analysed(<<listAttachments>>)
                  /\ analysis' =
                       IF listAttachments.outcome # ReadOk THEN analysis
                       ELSE [analysis EXCEPT
                               !.volumeAttachmentCount = Len(vas),
                               !.attachedVolumeCount =
                                   Cardinality({i \in DOMAIN vas : vas[i].attached}),
                               !.volumeAttachmentErrors =
                                   Cardinality({i \in DOMAIN vas :
                                       vas[i].attachError \/ vas[i].detachError})]

\* GetDetailedAnalysis: "Get node PVC usage if available"
AnalyseNodePVCUsage ==
    /\ pc = AnalysisPosition(CrossNodePVCMethod)
    /\ pc' = AnalysisPosition(EventsMethod)
    /\ IF CrossNodePVCMethod \notin detectors
       THEN Analysed(<<>>) /\ UNCHANGED analysis
       ELSE \E cancelAt \in CancelPoints(1), listFails \in BOOLEAN :
            \E nodeOrder \in Perms(usageNodes(pods)) :
              LET u == GetNodePVCUsage(pods, listFails, cancelAt, nodeOrder)
              IN  /\ Analysed(u.log)
                  /\ analysis' = IF u.failed THEN analysis
                                 ELSE [analysis EXCEPT !.nodePVCUsage = u.usage]

\* GetDetailedAnalysis: "Get recent events if available"
AnalyseRecentEvents ==
    /\ pc = AnalysisPosition(EventsMethod)
    /\ pc' = AnalysisPosition(MetricsMethod)
    /\ IF EventsMethod \notin detectors
       THEN Analysed(<<>>) /\ UNCHANGED analysis
       ELSE \E cancelAt \in CancelPoints(1), listFails \in BOOLEAN :
              LET e == GetRecentEvents(events, listFails, options.targetDriver,
                                       LookbackDuration, RecentEventsLimit, cancelAt)
              IN  /\ Analysed(e.log)
                  /\ analysis' = IF e.failed THEN analysis
                                 ELSE [analysis EXCEPT !.recentEvents = e.events]

\* GetDetailedAnalysis: "Get metric queries if available" and "return analysis, nil"
AnalyseMetricsAndReturn ==
    /\ pc = AnalysisPosition(MetricsMethod)
    /\ pc' = "done"
    /\ Analysed(<<>>)
    /\ analysis' = IF MetricsMethod \notin detectors THEN analysis
                   ELSE [analysis EXCEPT !.metricQueries = GetMetricQueries(options.targetDriver),
                                         !.recommendedAlerts = GetRecommendedAlerts]

\* a Detector on a snapshot, about to run GetDetailedAnalysis
InitAnalysis ==
    /\ options \in [methods : SeqsUpTo(DetectionMethods, MaxMethods),
                    targetDriver : {Empty, TestDriver},
                    minSeverity : {""},
                    recommendCleanup : {FALSE}]
    /\ \E snapshot \in Snapshots :
         /\ attachments = snapshot.attachments
         /\ pods = snapshot.pods
         /\ pvcs = snapshot.pvcs
         /\ events = snapshot.events
    /\ ctxCancelled = FALSE
    /\ detectors = NewDetector(options.methods)
    /\ pc = AnalysisPosition(VolumeAttachmentMethod)
    /\ invoked = <<>>
    /\ readLog = <<>>
    /\ produced = [m \in DetectionMethods |-> <<>>]
    /\ allIssues = <<>>
    /\ methodsUsed = <<>>
    /\ result = NoResult
    /\ err = NoError
    /\ analysis = ZeroAnalysis
    /\ MinerIdle
    /\ WaitIdle
    /\ CleanupIdle

NextAnalysis ==
    \/ AnalyseVolumeAttachments
    \/ AnalyseNodePVCUsage
    \/ AnalyseRecentEvents
    \/ AnalyseMetricsAndReturn

SpecAnalysis == InitAnalysis /\ [][NextAnalysis]_vars

\* C11: in GetDetailedAnalysis a failure, other than a cancellation, of one source (list
\* attachments, list pods, list events) leaves exactly the fields derived from that
\* source at their zero value, still fills the fields of the sources that succeeded, and
\* the call returns a nil error.
C11_FailedSourceLeavesItsFieldsZero ==
    (pc = "done" /\ NoReadCancelled) =>
        /\ err.isNil
        /\ OutcomeOf("listAttachments") # ReadOk =>
             /\ analysis.volumeAttachmentCount = 0
             /\ analysis.attachedVolumeCount = 0
             /\ analysis.volumeAttachmentErrors = 0
        /\ OutcomeOf("listAttachments") = ReadOk =>
             /\ analysis.volumeAttachmentCount = Len(attachments)
             /\ analysis.attachedVolumeCount = Len(SelectSeq(attachments, LAMBDA va : va.attached))
             /\ analysis.volumeAttachmentErrors =
                  Len(SelectSeq(attachments, LAMBDA va : va.attachError \/ va.detachError))
        /\ OutcomeOf("listPods") # ReadOk => analysis.nodePVCUsage = <<>>
        /\ OutcomeOf("listPods") = ReadOk =>
             /\ {analysis.nodePVCUsage[k].node : k \in DOMAIN analysis.nodePVCUsage}
                  = {pods[i].node : i \in DOMAIN pods} \ {<<>>}
             /\ Len(analysis.nodePVCUsage) = Cardinality({pods[i].node : i \in DOMAIN pods} \ {<<>>})
             /\ \A k \in DOMAIN analysis.nodePVCUsage :
                  analysis.nodePVCUsage[k].total =
                      SumOver([i \in DOMAIN pods |->
                                 IF pods[i].node = analysis.nodePVCUsage[k].node
                                 THEN Len(SelectSeq(pods[i].volumes, LAMBDA v : v.hasPVC))
                                 ELSE 0], DOMAIN pods)
        /\ OutcomeOf("listEvents") # ReadOk => analysis.recentEvents = <<>>
        /\ OutcomeOf("listEvents") = ReadOk =>
             \A i \in DOMAIN events :
                 (events[i].lastTimestamp >= Now - 60 /\ Contains(events[i].message, CSIText))
                     => \E k \in DOMAIN analysis.recentEvents :
                            /\ analysis.recentEvents[k].message = events[i].message
                            /\ analysis.recentEvents[k].reason = events[i].reason
                            /\ analysis.recentEvents[k].time = events[i].lastTimestamp

\* the attachment list failed, the pod list succeeded: the counts are zero, the usage is filled
C11_Witness ==
    /\ pc = "done"
    /\ OutcomeOf("listAttachments") = ReadError
    /\ OutcomeOf("listPods") = ReadOk
    /\ attachments # <<>>
    /\ analysis.volumeAttachmentCount = 0
    /\ analysis.nodePVCUsage # <<>>
    /\ err.isNil

\* C12: when the context passed to GetDetailedAnalysis is cancelled, so that a read
\* returns a cancellation error, GetDetailedAnalysis returns an error instead of an
\* analysis; no other condition makes the call fail as a whole.
C12_CancellationAbortsAnalysis ==
    pc = "done" => (err.isNil <=> NoReadCancelled)

-----------------------------------------------------------------------------
(* The message miner of the events detector, applied to one message *)

\* analyzeEvent calling extractVolumeFromMessage on the message
ExtractVolume ==
    /\ pc = "miner"
    /\ ~extracted.volumeDone
    /\ extracted' = [extracted EXCEPT !.volumeDone = TRUE,
                                      !.volume = extractVolumeFromMessage(minedMessage)]
    /\ UNCHANGED <<detectVars, ctxCancelled, pc, err, analysis, minedMessage, reextracted, waitVars, cleanupVars>>

\* analyzeEvent calling extractDriverFromMessage on the message
ExtractDriver ==
    /\ pc = "miner"
    /\ ~extracted.driverDone
    /\ extracted' = [extracted EXCEPT
                       !.driverDone = TRUE,
                       !.driver = extractDriverFromMessage(minedMessage, options.targetDriver)]
    /\ UNCHANGED <<detectVars, ctxCancelled, pc, err, analysis, minedMessage, reextracted, waitVars, cleanupVars>>

\* a message that consists of the value v surrounded by spaces and filler text
InFillerText(v) == <<".",".","."," ">> \o v \o <<" ",".",".",".">>

\* extractVolumeFromMessage on the extracted volume in filler text
ExtractVolumeAgain ==
    /\ pc = "miner"
    /\ extracted.volumeDone /\ ~reextracted.volumeDone
    /\ reextracted' = [reextracted EXCEPT
                         !.volumeDone = TRUE,
                         !.volume = extractVolumeFromMessage(InFillerText(extracted.volume))]
    /\ UNCHANGED <<detectVars, ctxCancelled, pc, err, analysis, minedMessage, extracted, waitVars, cleanupVars>>

\* extractDriverFromMessage on the extracted driver in filler text
ExtractDriverAgain ==
    /\ pc = "miner"
    /\ extracted.driverDone /\ ~reextracted.driverDone
    /\ reextracted' = [reextracted EXCEPT
                         !.driverDone = TRUE,
                         !.driver = extractDriverFromMessage(InFillerText(extracted.driver),
                                                             options.targetDriver)]
    /\ UNCHANGED <<detectVars, ctxCancelled, pc, err, analysis, minedMessage, extracted, waitVars, cleanupVars>>

\* how the messages of the pool begin
MessageHeads ==
    {<<"M","o","u","n","t","V","o","l","u","m","e",".","S","e","t","U","p"," ","f","a","i","l","e","d"," ","f","o","r"," ","v","o","l","u","m","e"," ">>, <<"A","t","t","a","c","h","V","o","l","u","m","e",".","A","t","t","a","c","h"," ","f","a","i","l","e","d"," ","f","o","r"," ","V","o","l","u","m","e"," ">>,
     <<"t","i","m","e","o","u","t"," ","e","x","p","i","r","e","d"," ","w","a","i","t","i","n","g"," ","f","o","r"," ","v","o","l","u","m","e","s","=","[">>, <<"r","p","c"," ","e","r","r","o","r",":"," ","h","a","n","d","l","e"," ">>, <<"d","e","t","a","c","h"," ","o","f"," ">>}

\* the volumes the messages of the pool name
MessageVolumes ==
    {<<"p","v","c","-","1","2","3">>, <<"\"","p","v","c","-","7","8","9","\"">>, <<"v","o","l","-","1">>, <<"\"","m","y"," ","v","o","l","\"">>, <<"d","a","t","a","]",",">>, <<"0","a","1","b","2","c","3","d","4","e","5","f","6","7","8","9">>, <<"u","n","k","n","o","w","n">>}

\* how the messages of the pool end
MessageTails ==
    {Empty, <<" ",":"," ","r","p","c"," ","e","r","r","o","r"," ","f","r","o","m"," ","c","i","n","d","e","r",".","c","s","i",".","o","p","e","n","s","t","a","c","k",".","o","r","g">>, <<" ","o","n"," ","e","b","s",".","c","s","i",".","a","w","s",".","c","o","m">>,
     <<" ",":"," ","t","e","s","t",".","c","s","i",".","d","r","i","v","e","r"," ","i","s"," ","n","o","t"," ","r","e","a","d","y">>}

\* the messages the extractors are run on
MessagePool ==
    {head \o volume \o tail : head \in MessageHeads, volume \in MessageVolumes, tail \in MessageTails}
    \cup {MsgMultiAttach, MsgMountRefs, MsgOtherDriver, MsgPlain, MsgBothDrivers}

\* an events detector, with or without a target driver, about to mine one message
InitMiner ==
    /\ options \in [methods : {<<EventsMethod>>}, targetDriver : {Empty, TestDriver},
                    minSeverity : {""}, recommendCleanup : {FALSE}]
    /\ minedMessage \in MessagePool
    /\ extracted = NotExtracted
    /\ reextracted = NotExtracted
    /\ pc = "miner"
    /\ attachments = <<>> /\ pods = <<>> /\ pvcs = <<>> /\ events = <<>>
    /\ ctxCancelled = FALSE
    /\ detectors = NewDetector(options.methods)
    /\ invoked = <<>>
    /\ readLog = <<>>
    /\ produced = [m \in DetectionMethods |-> <<>>]
    /\ allIssues = <<>>
    /\ methodsUsed = <<>>
    /\ result = NoResult
    /\ err = NoError
    /\ analysis = ZeroAnalysis
    /\ WaitIdle
    /\ CleanupIdle

NextMiner == ExtractVolume \/ ExtractDriver \/ ExtractVolumeAgain \/ ExtractDriverAgain

SpecMiner == InitMiner /\ [][NextMiner]_vars

\* C18: message-miner idempotence: if the volume or the driver extractor returns a value
\* v other than its not-found sentinel for a message, the same extractor returns v again
\* for the message that consists of v surrounded by spaces and filler text.
C18_ExtractorsAreIdempotent ==
    /\ (reextracted.volumeDone /\ extracted.volume # Unknown)
          => reextracted.volume = extracted.volume
    /\ (reextracted.driverDone /\ extracted.driver # Unknown)
          => reextracted.driver = extracted.driver

-----------------------------------------------------------------------------
(* CleanupJobManager.WaitForJobs: pkg/cleanup *)

\* fmt.Errorf("timeout waiting for jobs to complete")
WaitTimeout == [isNil |-> FALSE, text |-> "timeout waiting for jobs to complete", job |-> ""]

\* fmt.Errorf("failed to check job status: %w", fmt.Errorf("failed to get job %s: %w", ...))
GetJobFailed(jobName) ==
    [isNil |-> FALSE, text |-> "failed to check job status: failed to get job %s", job |-> jobName]

\* fmt.Errorf("failed to check job status: %w", fmt.Errorf("cleanup job %s failed", jobName))
CleanupJobFailed(jobName) ==
    [isNil |-> FALSE, text |-> "failed to check job status: cleanup job %s failed", job |-> jobName]

\* a job classified with Succeeded > 0 looked at before Failed > 0
jobState_succeededFirst(job) ==
    IF job.succeeded = 0 /\ job.failed = 0 THEN "running"
    ELSE IF job.succeeded > 0 THEN "succeeded"
    ELSE "failed"

\* the three cases checkJobsStatus tells apart from job.Status
jobState(job) ==
    IF job.succeeded = 0 /\ job.failed = 0 THEN "running"
    ELSE IF job.failed > 0 THEN "failed"
    ELSE "succeeded"

\* what WaitForJobs leaves alone
Waiting == UNCHANGED <<detectVars, analysis, minerVars, jobNames, cleanupVars>>

\* the ticker of WaitForJobs delivers a tick (every 5 seconds; a tick not yet taken is kept)
TickerFires ==
    /\ pc \in {"wait-select", "wait-check"}
    /\ ~tickReady
    /\ tickReady' = TRUE
    /\ UNCHANGED <<ctxCancelled, pc, err, jobs, checkIndex, allComplete, seen>>
    /\ Waiting

\* the context of the call is cancelled or reaches its deadline
ContextDone ==
    /\ pc \in {"wait-select", "wait-check"}
    /\ ~ctxCancelled
    /\ ctxCancelled' = TRUE
    /\ UNCHANGED <<pc, err, jobs, tickReady, checkIndex, allComplete, seen>>
    /\ Waiting

\* a running job of the namespace completes: one of its pods succeeds
JobSucceeds ==
    /\ pc \in {"wait-select", "wait-check"}
    /\ \E name \in DOMAIN jobs :
         /\ jobs[name].exists /\ jobState(jobs[name]) = "running"
         /\ jobs' = [jobs EXCEPT ![name].succeeded = 1]
    /\ UNCHANGED <<ctxCancelled, pc, err, tickReady, checkIndex, allComplete, seen>>
    /\ Waiting

\* a running job of the namespace fails
JobFails ==
    /\ pc \in {"wait-select", "wait-check"}
    /\ \E name \in DOMAIN jobs :
         /\ jobs[name].exists /\ jobState(jobs[name]) = "running"
         /\ jobs' = [jobs EXCEPT ![name].failed = 1]
    /\ UNCHANGED <<ctxCancelled, pc, err, tickReady, checkIndex, allComplete, seen>>
    /\ Waiting

\* select taking "case <-ctx.Done()" and WaitForJobs returning nil
SelectTimeout_returnsNil ==
    /\ pc = "wait-select"
    /\ ctxCancelled
    /\ pc' = "done"
    /\ err' = NoError
    /\ UNCHANGED <<ctxCancelled, jobs, tickReady, checkIndex, allComplete, seen>>
    /\ Waiting

\* WaitForJobs: select takes "case <-ctx.Done()"
SelectTimeout ==
    /\ pc = "wait-select"
    /\ ctxCancelled
    /\ pc' = "done"
    /\ err' = WaitTimeout
    /\ UNCHANGED <<ctxCancelled, jobs, tickReady, checkIndex, allComplete, seen>>
    /\ Waiting

\* WaitForJobs: select takes "case <-ticker.C" and checkJobsStatus starts
SelectTick ==
    /\ pc = "wait-select"
    /\ tickReady
    /\ tickReady' = FALSE
    /\ pc' = "wait-check"
    /\ checkIndex' = 1
    /\ allComplete' = TRUE
    /\ seen' = <<>>
    /\ UNCHANGED <<ctxCancelled, err, jobs>>
    /\ Waiting

\* checkJobsStatus: one turn of the loop, the Get of the job and the test of its status;
\* an error makes checkJobsStatus and WaitForJobs return
CheckJob ==
    /\ pc = "wait-check"
    /\ checkIndex <= Len(jobNames)
    /\ LET jobName == jobNames[checkIndex]
           job == jobs[jobName]
           fetched == job.exists /\ ~ctxCancelled
       IN  /\ seen' = Append(seen, [name |-> jobName, fetched |-> fetched,
                                    succeeded |-> IF fetched THEN job.succeeded ELSE 0,
                                    failed |-> IF fetched THEN job.failed ELSE 0])
           /\ IF ~fetched
              THEN /\ pc' = "done" /\ err' = GetJobFailed(jobName)
                   /\ UNCHANGED <<checkIndex, allComplete>>
              ELSE IF jobState(job) = "running"
              THEN /\ allComplete' = FALSE /\ checkIndex' = checkIndex + 1
                   /\ UNCHANGED <<pc, err>>
              ELSE IF jobState(job) = "failed"
              THEN /\ pc' = "done" /\ err' = CleanupJobFailed(jobName)
                   /\ UNCHANGED <<checkIndex, allComplete>>
              ELSE /\ checkIndex' = checkIndex + 1
                   /\ UNCHANGED <<pc, err, allComplete>>
    /\ UNCHANGED <<ctxCancelled, jobs, tickReady>>
    /\ Waiting

\* checkJobsStatus returns allComplete, nil: WaitForJobs returns nil or goes back to select
CheckReturns ==
    /\ pc = "wait-check"
    /\ checkIndex > Len(jobNames)
    /\ pc' = IF allComplete THEN "done" ELSE "wait-select"
    /\ err' = NoError
    /\ UNCHANGED <<ctxCancelled, jobs, tickReady, checkIndex, allComplete, seen>>
    /\ Waiting

\* the names of the cleanup jobs
JobNamePool == {"csi-cleanup-node-1", "csi-cleanup-node-2"}

\* the Job objects a name may stand for: none, running, succeeded, failed, and succeeded
\* after a failed pod
JobPool ==
    {[exists |-> FALSE, succeeded |-> 0, failed |-> 0],
     [exists |-> TRUE, succeeded |-> 0, failed |-> 0],
     [exists |-> TRUE, succeeded |-> 1, failed |-> 0],
     [exists |-> TRUE, succeeded |-> 0, failed |-> 1],
     [exists |-> TRUE, succeeded |-> 1, failed |-> 1]}

\* WaitForJobs has created its ticker and enters the loop
InitWait ==
    /\ jobNames \in SeqsUpTo(JobNamePool, MaxJobs)
    /\ jobs \in [JobNamePool -> JobPool]
    /\ tickReady = FALSE
    /\ checkIndex = 1
    /\ allComplete = TRUE
    /\ seen = <<>>
    /\ pc = "wait-select"
    /\ ctxCancelled = FALSE
    /\ err = NoError
    /\ options = [methods |-> <<>>, targetDriver |-> Empty, minSeverity |-> "",
                  recommendCleanup |-> FALSE]
    /\ attachments = <<>> /\ pods = <<>> /\ pvcs = <<>> /\ events = <<>>
    /\ detectors = {}
    /\ invoked = <<>>
    /\ readLog = <<>>
    /\ produced = [m \in DetectionMethods |-> <<>>]
    /\ allIssues = <<>>
    /\ methodsUsed = <<>>
    /\ result = NoResult
    /\ analysis = ZeroAnalysis
    /\ MinerIdle
    /\ CleanupIdle

NextWait ==
    \/ TickerFires
    \/ ContextDone
    \/ JobSucceeds
    \/ JobFails
    \/ SelectTimeout
    \/ SelectTick
    \/ CheckJob
    \/ CheckReturns

SpecWait == InitWait /\ [][NextWait]_vars

\* the ticker keeps ticking, a goroutine blocked in select runs once a case is ready, and
\* a status check that has started goes on
SpecWaitLive ==
    /\ SpecWait
    /\ WF_vars(TickerFires)
    /\ WF_vars(SelectTimeout \/ SelectTick)
    /\ WF_vars(CheckJob)
    /\ WF_vars(CheckReturns)

\* the status check fetched the job and found it succeeded, with no failure
SeenSucceeded(s) == s.fetched /\ s.succeeded > 0 /\ s.failed = 0

\* the status check could not fetch the job, or found it failed
SeenBroken(s) == ~s.fetched \/ s.failed > 0

\* C19: WaitForJobs returns nil only after a status check in which every named job has
\* Succeeded > 0 and Failed = 0; whenever a status check finds a named job that cannot
\* be fetched or that has Failed > 0, WaitForJobs returns an error naming that job, and
\* never nil, even if other jobs succeeded.
C19_NilOnlyAfterAllSucceeded ==
    /\ (pc = "done" /\ err.isNil) =>
          /\ Len(seen) = Len(jobNames)
          /\ \A i \in DOMAIN seen : seen[i].name = jobNames[i] /\ SeenSucceeded(seen[i])
    /\ \A i \in DOMAIN seen :
          SeenBroken(seen[i]) => (pc = "done" /\ ~err.isNil /\ err.job = seen[i].name)

\* the check found the first job succeeded and the second failed: the error names the second
C19_Witness ==
    /\ pc = "done"
    /\ Len(seen) = 2
    /\ SeenSucceeded(seen[1])
    /\ seen[2].fetched /\ seen[2].failed > 0
    /\ err = CleanupJobFailed(jobNames[2])

\* some named job is still running
SomeNamedJobRunning ==
    \E i \in DOMAIN jobNames :
        jobs[jobNames[i]].exists /\ jobState(jobs[jobNames[i]]) = "running"

\* every named job exists and has succeeded without a failure
AllNamedJobsSucceeded ==
    \A i \in DOMAIN jobNames :
        jobs[jobNames[i]].exists /\ jobState(jobs[jobNames[i]]) = "succeeded"

\* WaitForJobs never returns nil while a named job is still running
NeverNilEarly == (pc = "done" /\ err.isNil) => ~SomeNamedJobRunning

\* C20 as stated: WaitForJobs never returns nil while a named job is still running, and
\* if the context is done before all jobs complete it returns the error "timeout waiting
\* for jobs to complete".
C20_ContextDoneMeansTimeoutError ==
    /\ NeverNilEarly
    /\ (pc = "done" /\ ctxCancelled /\ SomeNamedJobRunning) => err = WaitTimeout

\* C20: WaitForJobs keeps polling while a named job is still running and never returns
\* nil early; once the context is done it terminates, and if a named job is still
\* running then, it returns an error: "timeout waiting for jobs to complete" when the
\* select sees the context done, or the wrapped error of the job read when the context
\* ends during or just before a status check; if every named job has succeeded and the
\* context stays live it eventually returns nil.
C20_PollsUntilDoneOrContextEnds ==
    /\ [](NeverNilEarly)
    /\ []((pc = "done" /\ ctxCancelled /\ SomeNamedJobRunning) =>
            \/ err = WaitTimeout
            \/ \E i \in DOMAIN jobNames : err = GetJobFailed(jobNames[i]))
    /\ (ctxCancelled ~> pc = "done")
    /\ ([](~ctxCancelled) => (AllNamedJobsSucceeded ~> (pc = "done" /\ err.isNil)))

\* the context ended while a job was running and the status check that had been chosen
\* returned the error of its job read
C20_Witness ==
    /\ pc = "done"
    /\ ctxCancelled
    /\ SomeNamedJobRunning
    /\ \E i \in DOMAIN jobNames : err = GetJobFailed(jobNames[i])

-----------------------------------------------------------------------------
(* CreateCleanupJob: the cleanup job manager *)

\* CleanupJobConfig: the fields that name the objects of the manifest
CleanupJobConfig(nodeName, serviceAccount) ==
    [nodeName |-> nodeName, serviceAccount |-> serviceAccount]

KindJob == "Job"
KindServiceAccount == "ServiceAccount"

\* a manifest that lists the ServiceAccount before the Job
generateJobManifest_accountFirst(config) ==
    <<[kind |-> KindServiceAccount, name |-> config.serviceAccount],
      [kind |-> KindJob, name |-> <<"c","s","i","-","m","o","u","n","t","-","c","l","e","a","n","u","p","-">> \o config.nodeName]>>

\* generateJobManifest, then parseManifest: the objects of the manifest, in document order
generateJobManifest(config) ==
    <<[kind |-> KindJob, name |-> <<"c","s","i","-","m","o","u","n","t","-","c","l","e","a","n","u","p","-">> \o config.nodeName],
      [kind |-> KindServiceAccount, name |-> config.serviceAccount]>>

\* fmt.Errorf("failed to create job %s: %w", job.Name, err)
CreateJobFailed(name) == [isNil |-> FALSE, text |-> "failed to create job %s", object |-> name]

\* fmt.Errorf("failed to create service account %s: %w", sa.Name, err)
CreateAccountFailed(name) ==
    [isNil |-> FALSE, text |-> "failed to create service account %s", object |-> name]

\* an API call of the running call and whether it returned without an error
Applied(call, name, ok) == applyLog' = Append(applyLog, [call |-> call, name |-> name, ok |-> ok])

\* "return \"\", err" in the loop of CreateCleanupJob
ReturnError(e) ==
    /\ cleanupReturn' = [returned |-> TRUE, jobName |-> Empty, err |-> e]
    /\ cleanupPc' = "returned"

\* what the steps of CreateCleanupJob leave alone
Cleaning == UNCHANGED <<detectVars, ctxCancelled, pc, err, analysis, minerVars, waitVars>>

\* the configurations CreateCleanupJob is called with
AccountNames == {<<"c","s","i","-","m","o","u","n","t","-","c","l","e","a","n","u","p">>, <<"d","e","f","a","u","l","t">>}
CleanupConfigs == {CleanupJobConfig(node, sa) : node \in {Node1, Node2}, sa \in AccountNames}

\* CreateCleanupJob is called: the manifest is generated and parsed
CallCreateCleanupJob ==
    /\ cleanupPc \in {"idle", "returned"}
    /\ cleanupCalls < MaxJobs
    /\ \E config \in CleanupConfigs : objects' = generateJobManifest(config)
    /\ cleanupCalls' = cleanupCalls + 1
    /\ currentJob' = Empty
    /\ cleanupReturn' = NotReturned
    /\ applyLog' = <<>>
    /\ cleanupPc' = "apply"
    /\ UNCHANGED <<clusterJobs, serviceAccounts>>
    /\ Cleaning

\* case *batchv1.Job: createJob; the Create fails when the API server fails it or a Job of
\* that name exists
ApplyJob ==
    /\ cleanupPc = "apply"
    /\ objects # <<>>
    /\ Head(objects).kind = KindJob
    /\ \E apiFails \in BOOLEAN :
         LET name == Head(objects).name
             ok == ~apiFails /\ name \notin clusterJobs
         IN  /\ currentJob' = name
             /\ Applied("createJob", name, ok)
             /\ IF ok
                THEN /\ clusterJobs' = clusterJobs \cup {name}
                     /\ objects' = Tail(objects)
                     /\ UNCHANGED <<cleanupPc, cleanupReturn>>
                ELSE /\ ReturnError(CreateJobFailed(name))
                     /\ UNCHANGED <<clusterJobs, objects>>
    /\ UNCHANGED <<cleanupCalls, serviceAccounts>>
    /\ Cleaning

\* case *corev1.ServiceAccount: createServiceAccount, the Get
GetServiceAccount ==
    /\ cleanupPc = "apply"
    /\ objects # <<>>
    /\ Head(objects).kind = KindServiceAccount
    /\ \E apiFails \in BOOLEAN :
         LET name == Head(objects).name
             ok == ~apiFails /\ name \in serviceAccounts
         IN  /\ Applied("getServiceAccount", name, ok)
             /\ IF ok
                THEN objects' = Tail(objects) /\ cleanupPc' = cleanupPc
                ELSE objects' = objects /\ cleanupPc' = "create-account"
    /\ UNCHANGED <<cleanupCalls, currentJob, cleanupReturn, clusterJobs, serviceAccounts>>
    /\ Cleaning

\* createServiceAccount, the Create after a failed Get
CreateServiceAccount ==
    /\ cleanupPc = "create-account"
    /\ \E apiFails \in BOOLEAN :
         LET name == Head(objects).name
             ok == ~apiFails /\ name \notin serviceAccounts
         IN  /\ Applied("createServiceAccount", name, ok)
             /\ IF ok
                THEN /\ serviceAccounts' = serviceAccounts \cup {name}
                     /\ objects' = Tail(objects)
                     /\ cleanupPc' = "apply"
                     /\ UNCHANGED cleanupReturn
                ELSE /\ ReturnError(CreateAccountFailed(name))
                     /\ UNCHANGED <<serviceAccounts, objects>>
    /\ UNCHANGED <<cleanupCalls, currentJob, clusterJobs>>
    /\ Cleaning

\* "return jobName, nil"
ReturnJobName ==
    /\ cleanupPc = "apply"
    /\ objects = <<>>
    /\ cleanupReturn' = [returned |-> TRUE, jobName |-> currentJob, err |-> NoError]
    /\ cleanupPc' = "returned"
    /\ UNCHANGED <<cleanupCalls, objects, currentJob, applyLog, clusterJobs, serviceAccounts>>
    /\ Cleaning

\* a manager on a namespace that may hold the ServiceAccount and a Job of an earlier run
InitCleanup ==
    /\ cleanupPc = "idle" /\ cleanupCalls = 0 /\ objects = <<>> /\ currentJob = Empty
    /\ cleanupReturn = NotReturned /\ applyLog = <<>>
    /\ clusterJobs \in SUBSET {<<"c","s","i","-","m","o","u","n","t","-","c","l","e","a","n","u","p","-">> \o Node1}
    /\ serviceAccounts \in SUBSET AccountNames
    /\ pc = "cleanup"
    /\ ctxCancelled = FALSE
    /\ err = NoError
    /\ options = [methods |-> <<>>, targetDriver |-> Empty, minSeverity |-> "",
                  recommendCleanup |-> FALSE]
    /\ attachments = <<>> /\ pods = <<>> /\ pvcs = <<>> /\ events = <<>>
    /\ detectors = {}
    /\ invoked = <<>>
    /\ readLog = <<>>
    /\ produced = [m \in DetectionMethods |-> <<>>]
    /\ allIssues = <<>>
    /\ methodsUsed = <<>>
    /\ result = NoResult
    /\ analysis = ZeroAnalysis
    /\ MinerIdle
    /\ WaitIdle

NextCleanup ==
    \/ CallCreateCleanupJob
    \/ ApplyJob
    \/ GetServiceAccount
    \/ CreateServiceAccount
    \/ ReturnJobName

SpecCleanup == InitCleanup /\ [][NextCleanup]_vars

\* the positions of the calls named call in the log of the running call
CallsOf(call) == {i \in DOMAIN applyLog : applyLog[i].call = call}

\* C30: CreateCleanupJob applies the objects of its manifest in manifest order: it
\* creates the Job first and only then ensures the ServiceAccount, creating it only when
\* a Get for it fails; when creating the Job fails nothing else is attempted, and when
\* creating the ServiceAccount fails the call returns an error with an empty job name
\* while the Job created by the same call is left in the cluster.
C30_JobFirstThenServiceAccount ==
    /\ applyLog # <<>> => applyLog[1].call = "createJob"
    /\ \A i \in CallsOf("getServiceAccount") \cup CallsOf("createServiceAccount") :
          \E j \in CallsOf("createJob") : j < i /\ applyLog[j].ok
    /\ \A i \in CallsOf("createServiceAccount") :
          /\ i - 1 \in CallsOf("getServiceAccount")
          /\ ~applyLog[i - 1].ok
          /\ applyLog[i].ok => applyLog[i].name \in serviceAccounts
    /\ \A i \in CallsOf("getServiceAccount") :
          (applyLog[i].ok /\ i < Len(applyLog)) => i + 1 \notin CallsOf("createServiceAccount")
    /\ \A i \in CallsOf("createJob") :
          ~applyLog[i].ok =>
              /\ i = Len(applyLog)
              /\ cleanupReturn = [returned |-> TRUE, jobName |-> Empty,
                                  err |-> CreateJobFailed(applyLog[i].name)]
    /\ \A i \in CallsOf("createServiceAccount") :
          ~applyLog[i].ok =>
              /\ i = Len(applyLog)
              /\ cleanupReturn.returned
              /\ cleanupReturn.jobName = Empty
              /\ cleanupReturn.err = CreateAccountFailed(applyLog[i].name)
              /\ \E j \in CallsOf("createJob") : applyLog[j].ok /\ applyLog[j].name \in clusterJobs
    /\ (cleanupReturn.returned /\ cleanupReturn.err = NoError) =>
          /\ cleanupReturn.jobName \in clusterJobs
          /\ \E j \in CallsOf("createJob") : applyLog[j].name = cleanupReturn.jobName
          /\ \E name \in serviceAccounts : \E i \in DOMAIN applyLog : applyLog[i].name = name

\* the ServiceAccount could not be created: an error, no job name, and the Job stays
C30_Witness ==
    /\ cleanupReturn.returned
    /\ cleanupReturn.jobName = Empty
    /\ \E i \in CallsOf("createServiceAccount") : ~applyLog[i].ok
    /\ \E j \in CallsOf("createJob") : applyLog[j].name \in clusterJobs

====
